---- MODULE Spec2Model ----
(***************************************************************************)
(* The chat component (src/components/Chat.tsx) with the two API routes    *)
(* it calls: its React state, the asynchronous continuations of            *)
(* handleSubmit and handleImageUpload, and the timers they start.  Every   *)
(* event handler and every continuation between two awaits is one action.  *)
(* Display-only state (aiResponseStatus, isDropdownOpen, the summarising   *)
(* flags of the disabled summary feature) is left out.                     *)
(***************************************************************************)
EXTENDS Integers, Sequences, FiniteSets, TLC

VARIABLES messages, input, isLoading, error, selectedModel, internalSummary,
          uploadedImages, aiResponseProgress,
          chatRequests, uploads, leakedProgressInterval, leakedCrawls,
          resetTimers, localStorage, pendingEffects, providerCalls

vars == <<messages, input, isLoading, error, selectedModel, internalSummary,
          uploadedImages, aiResponseProgress,
          chatRequests, uploads, leakedProgressInterval, leakedCrawls,
          resetTimers, localStorage, pendingEffects, providerCalls>>

\* The stored preference and the effects not yet run stay as they are in every
\* handler but the model selection.
storage == <<localStorage, pendingEffects>>

----------------------------------------------------------------------------
(* Bounds of the model *)

\* A submit is taken only while the log is shorter than this.
MaxLog == 2
\* Uploads running at once, and images held by the attachment set and the log.
MaxUploads == 2
\* Firings of an interval timer followed from each value the handlers set.
MaxTicks == 1
\* Delayed progress resets pending when a submit is taken.
MaxPendingResets == 2
\* Pieces of an assistant reply that holds math notation.
MaxTokens == 4

\* An upload is taken in the specification of the routes' calls only while
\* fewer uploads than this have reached the vision provider.
MaxRoutedUploads == 1

----------------------------------------------------------------------------
(* Values *)

\* JavaScript null (error) and undefined (optional string fields).
Null == "<null>"
Undefined == "<undefined>"
\* An ImageData.progress that is undefined.
NoProgress == -1

MaxFileSize == 10 * 1024 * 1024
ProgressCap == 85
CrawlCap == 80

\* The model follows an interval timer MaxTicks steps on from each value the
\* handlers set (bases), and at and above the value where the timer stops.
InTickWindow(progress, bases, cap) ==
  progress >= cap \/ \E b \in bases : progress - b \in 0..(MaxTicks - 1)

Min(S) == CHOOSE x \in S : \A y \in S : x <= y
Max(S) == CHOOSE x \in S : \A y \in S : x >= y

\* String.prototype.trim over the blanks the inputs contain.
Trim(s) ==
  LET idx == {i \in 1..Len(s) : SubSeq(s, i, i) # " "}
  IN  IF idx = {} THEN "" ELSE SubSeq(s, Min(idx), Max(idx))

\* String.prototype.startsWith
StartsWith(s, p) == Len(s) >= Len(p) /\ SubSeq(s, 1, Len(p)) = p

\* Template-literal interpolation of a possibly undefined string.
Str(v) == IF v = Undefined THEN "undefined" ELSE v

----------------------------------------------------------------------------
(* JSON text, as JSON.stringify writes it and JSON.parse reads it *)

Quote(s) == "\"" \o s \o "\""

RECURSIVE JoinWith(_, _)
JoinWith(seq, sep) ==
  IF seq = <<>> THEN ""
  ELSE IF Len(seq) = 1 THEN seq[1]
  ELSE seq[1] \o sep \o JoinWith(Tail(seq), sep)

QuoteAll(seq) == [i \in 1..Len(seq) |-> Quote(seq[i])]

JSONStringify(v) ==
  CASE v.t = "null"   -> "null"
    [] v.t = "string" -> Quote(v.s)
    [] v.t = "object" ->
         "{\"description\":" \o Quote(v.description)
         \o ",\"objects\":[" \o JoinWith(QuoteAll(v.objects), ",") \o "]"
         \o ",\"colors\":[" \o JoinWith(QuoteAll(v.colors), ",") \o "]"
         \o ",\"context\":" \o Quote(v.context) \o "}"

JsonNull == [t |-> "null"]
JsonString(s) == [t |-> "string", s |-> s]
DescriptionObject(d, objs, cols, ctx) ==
  [t |-> "object", description |-> d, objects |-> objs, colors |-> cols, context |-> ctx]

\* The JSON values a vision provider's text can denote in this model.
JsonValues ==
  { JsonNull, JsonString(""),
    DescriptionObject("a cat", <<"cat">>, <<"grey">>, "a sofa") }

\* JSON.parse: the value whose text this is, or a SyntaxError.
JSONParse(text) ==
  LET m == {v \in JsonValues : JSONStringify(v) = text}
  IN  IF m = {} THEN [ok |-> FALSE, value |-> JsonNull]
      ELSE [ok |-> TRUE, value |-> CHOOSE v \in m : TRUE]

----------------------------------------------------------------------------
(* HTTP responses as the client's fetch sees them *)

\* json = <<>>: the body is not JSON (response.json() rejects).
JsonResponse(status, body) ==
  [ok |-> status >= 200 /\ status <= 299, status |-> status, json |-> <<body>>]
NonJsonResponse(status) ==
  [ok |-> status >= 200 /\ status <= 299, status |-> status, json |-> <<>>]
NoResponse == [ok |-> FALSE, status |-> 0, json |-> <<>>]

HasField(body, f) == f \in DOMAIN body

----------------------------------------------------------------------------
(* POST /api/image (src/app/api/image/route.ts) *)

\* process.env of the deployment: the key set, or left blank.
Envs == {[OPENROUTER_API_KEY |-> "sk-or-v1-0"], [OPENROUTER_API_KEY |-> " "]}

VisionModel == "google/gemma-3-4b-it:free"

\* What the vision provider's message content can be: nothing, free text,
\* or the text of a JSON value.
VisionContents ==
  {"", "a red car", JSONStringify(DescriptionObject("a cat", <<"cat">>, <<"grey">>, "a sofa"))}

\* What the call to the vision provider can do: throw (network failure, a
\* body that is not JSON, no choices array), answer with a failure status, or
\* answer 2xx with zero or one choice.
VisionOutcomes ==
  { [kind |-> "throw"],
    [kind |-> "http", status |-> 429, text |-> "rate limited"],
    [kind |-> "ok", choices |-> <<>>] }
  \cup { [kind |-> "ok", choices |-> <<c>>] : c \in VisionContents }

\* A route that lets the SyntaxError of JSON.parse reach the outer catch.
ImageRouteStrict(imageUrl, env, outcome) ==
  IF imageUrl = ""
  THEN JsonResponse(400, [error |-> "Image URL is required"])
  ELSE IF Trim(env.OPENROUTER_API_KEY) = ""
  THEN JsonResponse(500, [error |-> "OpenRouter API key is not configured"])
  ELSE IF outcome.kind = "throw"
  THEN JsonResponse(500, [error |-> "Internal server error"])
  ELSE IF outcome.kind = "http"
  THEN JsonResponse(500,
         [error |-> "Vision model failed. Error: Model " \o VisionModel \o ": "
                    \o ToString(outcome.status) \o " " \o outcome.text])
  ELSE LET description ==
             IF outcome.choices = <<>> THEN "" ELSE outcome.choices[1]
       IN  IF description = ""
           THEN JsonResponse(500, [error |-> "Failed to get image description"])
           ELSE LET parsed == JSONParse(description)
                IN  IF parsed.ok
                    THEN JsonResponse(200, [description |-> parsed.value])
                    ELSE JsonResponse(500, [error |-> "Internal server error"])

ImageRoute(imageUrl, env, outcome) ==
  IF imageUrl = ""
  THEN JsonResponse(400, [error |-> "Image URL is required"])
  ELSE IF Trim(env.OPENROUTER_API_KEY) = ""
  THEN JsonResponse(500, [error |-> "OpenRouter API key is not configured"])
  ELSE IF outcome.kind = "throw"
  THEN JsonResponse(500, [error |-> "Internal server error"])
  ELSE IF outcome.kind = "http"
  THEN JsonResponse(500,
         [error |-> "Vision model failed. Error: Model " \o VisionModel \o ": "
                    \o ToString(outcome.status) \o " " \o outcome.text])
  ELSE LET description ==
             IF outcome.choices = <<>> THEN "" ELSE outcome.choices[1]
       IN  IF description = ""
           THEN JsonResponse(500, [error |-> "Failed to get image description"])
           ELSE LET parsed == JSONParse(description)
                IN  IF parsed.ok
                    THEN JsonResponse(200, [description |-> parsed.value])
                    ELSE JsonResponse(200,
                           [description |->
                              DescriptionObject(description, <<>>, <<>>,
                                "Image description from vision model")])

----------------------------------------------------------------------------
(* POST /api/chat (second half of src/app/api/test/route.ts) *)

Replies == {"Halo!"}

ChatOutcomes ==
  { [kind |-> "throw"],
    [kind |-> "http", status |-> 429, statusText |-> "Too Many Requests"],
    [kind |-> "ok", message |-> <<>>] }
  \cup { [kind |-> "ok", message |-> <<[role |-> "assistant", content |-> r]>>] :
           r \in Replies }

ChatRoute(body, env, outcome) ==
  IF Len(body.messages) = 0
  THEN JsonResponse(400, [error |-> "Messages array is required and cannot be empty"])
  ELSE IF Trim(env.OPENROUTER_API_KEY) = ""
  THEN JsonResponse(500, [error |-> "OpenRouter API key is not configured"])
  ELSE IF outcome.kind = "throw"
  THEN JsonResponse(500, [error |-> "Internal server error"])
  ELSE IF outcome.kind = "http"
  THEN JsonResponse(outcome.status,
         [error |-> "OpenRouter API error: " \o ToString(outcome.status) \o " "
                    \o outcome.statusText])
  ELSE IF outcome.message = <<>>
  THEN JsonResponse(500, [error |-> "No response from assistant"])
  ELSE JsonResponse(200, [message |-> outcome.message[1]])

----------------------------------------------------------------------------
(* What reaches the client besides the routes' own answers: a failure       *)
(* status from the hosting platform, with a body that is not JSON or is     *)
(* JSON without an error field, and a 2xx body cut short.                   *)

PlatformResponses ==
  { NonJsonResponse(502), JsonResponse(502, [message |-> "Bad Gateway"]),
    NonJsonResponse(200) }

\* err.message of what fetch and response.json() throw.
FetchErrorMessage == "Failed to fetch"
JsonSyntaxErrorMessage == "Unexpected end of JSON input"

----------------------------------------------------------------------------
(* Context assembly (handleSubmit, lines 181-239) *)

BaseSystemMessage ==
  [role |-> "system",
   content |-> "Nama kamu adalah \"Kacung\". Kamu adalah asisten pribadi yang ramah.\n        ATURAN PENTING:\n        - JANGAN PERNAH memberitahu informasi tentang model AI kamu (seperti Mistral, Gemma, dll).\n        - Jangan pernah sebutkan bahwa kamu adalah model AI.\n        - Jika ditanya siapa kamu atau model apa kamu, jawablah bahwa kamu adalah Kacung.\n        \n        IMPORTANT MATH RULES:\n        - Use standard LaTeX for all mathematical formulas. \n        - Use $...$ for inline math and $$...$$ for block math. \n        - NEVER use \\( \\) or \\[ \\] or bare brackets [ ].\n        - DO NOT put spaces inside LaTeX commands (e.g., use \\partial not \\partia l).\n        - If you see a complex formula, ALWAYS wrap it in $$...$$.\n        \n        GENERAL RULES:\n        - ALWAYS respond in the same language as the user.\n        - If just greeted, respond naturally without excessive capability listing."]

\* Labels that count from 0.
ImageDescriptionsFromZero(images) ==
  JoinWith([i \in 1..Len(images) |->
              "[IMAGE " \o ToString(i - 1) \o " ANALYSIS]:\n"
              \o Str(images[i].description)],
           "\n\n")

ImageDescriptions(images) ==
  JoinWith([i \in 1..Len(images) |->
              "[IMAGE " \o ToString(i) \o " ANALYSIS]:\n"
              \o Str(images[i].description)],
           "\n\n")

AnalysisMessage(currentImages) ==
  [role |-> "user",
   content |-> "[CONTEXT: IMAGE ANALYSIS] The user has provided "
               \o ToString(Len(currentImages))
               \o " image(s). Here is the detailed analysis:\n\n"
               \o ImageDescriptions(currentImages)
               \o "\n\n(Refer to these as Image 1, Image 2, etc. Use this context to answer the user's questions.)"]

NewMessagesToAdd(currentInput, currentImages) ==
  (IF Len(currentImages) > 0 THEN <<AnalysisMessage(currentImages)>> ELSE <<>>)
  \o <<[role |-> "user", content |-> currentInput]>>

Sanitize(msg) == [role |-> msg.role, content |-> msg.content]

\* A context with the summary after the log.
FinalContextSummaryLast(contextMessages, currentInput, currentImages, summary) ==
  LET all == <<BaseSystemMessage>> \o contextMessages \o summary
             \o NewMessagesToAdd(currentInput, currentImages)
  IN  [i \in 1..Len(all) |-> Sanitize(all[i])]

\* A context that tells the assistant of the error shown when the submit is made.
FinalContextAfterError(contextMessages, currentInput, currentImages, summary) ==
  LET all == <<BaseSystemMessage>> \o summary \o contextMessages
             \o (IF error # Null THEN <<[role |-> "system", content |-> error]>> ELSE <<>>)
             \o NewMessagesToAdd(currentInput, currentImages)
  IN  [i \in 1..Len(all) |-> Sanitize(all[i])]

FinalContext(contextMessages, currentInput, currentImages, summary) ==
  LET all == <<BaseSystemMessage>> \o summary \o contextMessages
             \o NewMessagesToAdd(currentInput, currentImages)
  IN  [i \in 1..Len(all) |-> Sanitize(all[i])]

\* The analysis message stored in the log when the response is applied.
AnalysisMsg(currentImages) ==
  [role |-> "user",
   content |-> "[CONTEXT: IMAGE ANALYSIS] The user has provided images. Here is the detailed analysis:\n"
               \o ImageDescriptions(currentImages)
               \o "\n\n(Use this information to answer the user's questions about the images.)"]

----------------------------------------------------------------------------
(* formatMathContent *)

\* [a-zA-Z]
Letters ==
  {"a", "b", "c", "d", "e", "f", "g", "h", "i", "j", "k", "l", "m",
   "n", "o", "p", "q", "r", "s", "t", "u", "v", "w", "x", "y", "z",
   "A", "B", "C", "D", "E", "F", "G", "H", "I", "J", "K", "L", "M",
   "N", "O", "P", "Q", "R", "S", "T", "U", "V", "W", "X", "Y", "Z"}
\* \s, and the line terminators that . leaves out
Whitespace == {" ", "\n", "\t", "\r"}
LineTerminators == {"\n", "\r"}

CharAt(s, i) == IF i >= 1 /\ i <= Len(s) THEN SubSeq(s, i, i) ELSE ""
HasAt(s, i, lit) == i >= 1 /\ i + Len(lit) - 1 <= Len(s) /\ SubSeq(s, i, i + Len(lit) - 1) = lit
\* The first position from `from` on where lit stands, or 0.
IndexFrom(s, lit, from) ==
  LET hits == {j \in from..Len(s) : HasAt(s, j, lit)}
  IN  IF hits = {} THEN 0 ELSE Min(hits)
\* The first position from `from` on that holds no whitespace.
SkipWhitespace(s, from) ==
  LET rest == {j \in from..Len(s) : CharAt(s, j) \notin Whitespace}
  IN  IF rest = {} THEN Len(s) + 1 ELSE Min(rest)

\* .replace(/\\\((.*?)\\\)/g, '$$$1$$'): the lazy group ends at the first \)
\* and holds no line terminator; the replacement pattern writes one $ a side.
RECURSIVE ReplaceInline(_, _)
ReplaceInline(s, i) ==
  IF i > Len(s) THEN ""
  ELSE LET close == IF HasAt(s, i, "\\(") THEN IndexFrom(s, "\\)", i + 2) ELSE 0
       IN  IF close # 0
              /\ \A k \in (i + 2)..(close - 1) : CharAt(s, k) \notin LineTerminators
           THEN "$" \o SubSeq(s, i + 2, close - 1) \o "$" \o ReplaceInline(s, close + 2)
           ELSE CharAt(s, i) \o ReplaceInline(s, i + 1)

\* .replace(/\\\[([\s\S]*?)\\\]/g, '$$$$$1$$$$')
RECURSIVE ReplaceBlock(_, _)
ReplaceBlock(s, i) ==
  IF i > Len(s) THEN ""
  ELSE LET close == IF HasAt(s, i, "\\[") THEN IndexFrom(s, "\\]", i + 2) ELSE 0
       IN  IF close # 0
           THEN "$$" \o SubSeq(s, i + 2, close - 1) \o "$$" \o ReplaceBlock(s, close + 2)
           ELSE CharAt(s, i) \o ReplaceBlock(s, i + 1)

\* .replace(/\[\s*(\\[a-zA-Z]+[\s\S]*?)\s*\]/g, '$$$$$1$$$$'): the group starts
\* at a backslash followed by a letter and ends before the whitespace that
\* precedes the first ] after it.
RECURSIVE ReplaceBracket(_, _)
ReplaceBracket(s, i) ==
  IF i > Len(s) THEN ""
  ELSE LET start == SkipWhitespace(s, i + 1)
           close == IF /\ CharAt(s, i) = "["
                       /\ CharAt(s, start) = "\\"
                       /\ CharAt(s, start + 1) \in Letters
                    THEN IndexFrom(s, "]", start + 2)
                    ELSE 0
       IN  IF close # 0
           THEN LET last == Max({k \in start..(close - 1) : CharAt(s, k) \notin Whitespace})
                IN  "$$" \o SubSeq(s, start, last) \o "$$" \o ReplaceBracket(s, close + 1)
           ELSE CharAt(s, i) \o ReplaceBracket(s, i + 1)

\* .replace(/lit/g, by) for a pattern without operators
RECURSIVE ReplaceLiteral(_, _, _, _)
ReplaceLiteral(s, i, lit, by) ==
  IF i > Len(s) THEN ""
  ELSE IF HasAt(s, i, lit)
  THEN by \o ReplaceLiteral(s, i + Len(lit), lit, by)
  ELSE CharAt(s, i) \o ReplaceLiteral(s, i + 1, lit, by)

\* .replace(/\\phi\s+/g, '\\phi ')
RECURSIVE ReplacePhi(_, _)
ReplacePhi(s, i) ==
  IF i > Len(s) THEN ""
  ELSE IF HasAt(s, i, "\\phi") /\ CharAt(s, i + 4) \in Whitespace
  THEN "\\phi " \o ReplacePhi(s, SkipWhitespace(s, i + 4))
  ELSE CharAt(s, i) \o ReplacePhi(s, i + 1)

\* .replace(/\\frac\s+{/g, '\\frac{')
RECURSIVE ReplaceFrac(_, _)
ReplaceFrac(s, i) ==
  IF i > Len(s) THEN ""
  ELSE LET brace == SkipWhitespace(s, i + 5)
       IN  IF /\ HasAt(s, i, "\\frac")
              /\ CharAt(s, i + 5) \in Whitespace
              /\ CharAt(s, brace) = "{"
           THEN "\\frac{" \o ReplaceFrac(s, brace + 1)
           ELSE CharAt(s, i) \o ReplaceFrac(s, i + 1)

formatMathContent(content) ==
  IF content = "" THEN content
  ELSE LET inline  == ReplaceInline(content, 1)
           block   == ReplaceBlock(inline, 1)
           bracket == ReplaceBracket(block, 1)
           partial == ReplaceLiteral(bracket, 1, "\\partia l", "\\partial")
           delta   == ReplaceLiteral(partial, 1, "\\delt a", "\\delta")
           phi     == ReplacePhi(delta, 1)
       IN  ReplaceFrac(phi, 1)

-----------------------------------------------------------------------------
(* Inputs *)

InputTexts == {" ", " Hi "}
Models == {"mistral", "gemma"}

\* The pieces an assistant reply is put together from: the delimiters the
\* rewrites look for, a command, a blank and a line break.
MathTokens == {"\\(", "\\)", "\\[", "\\]", "[", "]", "\\phi", " ", "\n"}

RECURSIVE TextsOf(_)
TextsOf(n) ==
  IF n = 0 THEN {""}
  ELSE LET shorter == TextsOf(n - 1)
       IN  shorter \cup {text \o token : text \in shorter, token \in MathTokens}

MathTexts == TextsOf(MaxTokens) \ {""}
\* Math.random().toString(36).substring(7) guarantees no fresh id.
Ids == {"k3x9", "p07q"}

Files ==
  { [name |-> "max.jpg",  type |-> "image/jpeg",      size |-> MaxFileSize,     b64 |-> "bWF4"],
    [name |-> "huge.png", type |-> "image/png",       size |-> MaxFileSize + 1, b64 |-> "aHVn"],
    [name |-> "doc.pdf",  type |-> "application/pdf", size |-> 2048,            b64 |-> "ZG9j"] }

\* The files that pass the validation when uploads run side by side.
Photos ==
  { [name |-> "max.jpg", type |-> "image/jpeg", size |-> MaxFileSize, b64 |-> "bWF4"],
    [name |-> "cat.png", type |-> "image/png",  size |-> 2048,        b64 |-> "Y2F0"] }

\* FileReader.readAsDataURL
DataURL(file) == "data:" \o file.type \o ";base64," \o file.b64

----------------------------------------------------------------------------
(* Sequence helpers *)

RemoveAt(seq, i) == SubSeq(seq, 1, i - 1) \o SubSeq(seq, i + 1, Len(seq))
ReplaceAt(seq, i, x) == [seq EXCEPT ![i] = x]

----------------------------------------------------------------------------
(* State after construction (useState initial values) *)

Init ==
  /\ messages = <<>>
  /\ input = ""
  /\ isLoading = FALSE
  /\ error = Null
  /\ selectedModel = "mistral"
  /\ internalSummary = <<>>
  /\ uploadedImages = <<>>
  /\ aiResponseProgress = 0
  /\ chatRequests = <<>>
  /\ uploads = <<>>
  /\ leakedProgressInterval = FALSE
  /\ leakedCrawls = {}
  /\ resetTimers = 0
  /\ localStorage = "mistral"
  /\ pendingEffects = <<>>
  /\ providerCalls = {}

\* const isProcessingImage = uploadedImages.some(img => img.isUploading)
isProcessingImage == \E i \in 1..Len(uploadedImages) : uploadedImages[i].isUploading

----------------------------------------------------------------------------
(* The text field and the model dropdown *)

SetInput(text) ==
  /\ ~isLoading
  /\ input' = text
  /\ UNCHANGED <<messages, isLoading, error, selectedModel, storage, providerCalls, internalSummary,
                 uploadedImages, aiResponseProgress, chatRequests, uploads,
                 leakedProgressInterval, leakedCrawls, resetTimers>>

\* The effect of a render, with the selectedModel that render closed over.
Effect(name, model) == [effect |-> name, selectedModel |-> model]

\* useEffect(..., [selectedModel]): a render whose selectedModel differs from
\* the one before it leaves the save effect to run.
SaveOnChange(effects, before, after) ==
  IF after # before THEN Append(effects, Effect("save", after)) ELSE effects

\* An event handler runs once the effects of the renders before it have run.
SelectModel(model) ==
  /\ ~isLoading
  /\ pendingEffects = <<>>
  /\ selectedModel' = model
  /\ pendingEffects' = SaveOnChange(pendingEffects, selectedModel, model)
  /\ UNCHANGED <<messages, input, isLoading, error, internalSummary,
                 uploadedImages, aiResponseProgress, chatRequests, uploads,
                 leakedProgressInterval, leakedCrawls, resetTimers,
                 localStorage, providerCalls>>

\* A load that takes whatever is stored.
LoadEffectUnchecked ==
  /\ pendingEffects # <<>>
  /\ Head(pendingEffects).effect = "load"
  /\ LET savedModel == localStorage
     IN  /\ selectedModel' = IF savedModel # Null THEN savedModel ELSE selectedModel
         /\ pendingEffects' = SaveOnChange(Tail(pendingEffects), selectedModel,
                                           selectedModel')
  /\ UNCHANGED <<messages, input, isLoading, error, internalSummary,
                 uploadedImages, aiResponseProgress, chatRequests, uploads,
                 leakedProgressInterval, leakedCrawls, resetTimers,
                 localStorage, providerCalls>>

\* The mount effect: localStorage.getItem('selectedModel'), kept when it is one
\* of the two identifiers.  The empty string and an absent key are both falsy.
LoadEffect ==
  /\ pendingEffects # <<>>
  /\ Head(pendingEffects).effect = "load"
  /\ LET savedModel == localStorage
     IN  /\ selectedModel' =
              IF savedModel # Null /\ savedModel # ""
                 /\ (savedModel = "mistral" \/ savedModel = "gemma")
              THEN savedModel
              ELSE selectedModel
         /\ pendingEffects' = SaveOnChange(Tail(pendingEffects), selectedModel,
                                           selectedModel')
  /\ UNCHANGED <<messages, input, isLoading, error, internalSummary,
                 uploadedImages, aiResponseProgress, chatRequests, uploads,
                 leakedProgressInterval, leakedCrawls, resetTimers,
                 localStorage, providerCalls>>

\* localStorage.setItem('selectedModel', selectedModel)
SaveEffect ==
  /\ pendingEffects # <<>>
  /\ Head(pendingEffects).effect = "save"
  /\ localStorage' = Head(pendingEffects).selectedModel
  /\ pendingEffects' = Tail(pendingEffects)
  /\ UNCHANGED <<messages, input, isLoading, error, selectedModel,
                 internalSummary, uploadedImages, aiResponseProgress,
                 chatRequests, uploads, leakedProgressInterval, leakedCrawls,
                 resetTimers, providerCalls>>

\* The effects of the first render, in the order the component declares them.
MountEffects == <<Effect("load", "mistral"), Effect("save", "mistral")>>

\* What the browser may hold under the key when the page is opened: nothing,
\* either identifier, or something else.
StoredValues == {Null, "mistral", "gemma", "gpt-4"}

\* The page is opened on a browser that holds any of the stored values.
InitLoad ==
  /\ messages = <<>>
  /\ input = ""
  /\ isLoading = FALSE
  /\ error = Null
  /\ selectedModel = "mistral"
  /\ internalSummary = <<>>
  /\ uploadedImages = <<>>
  /\ aiResponseProgress = 0
  /\ chatRequests = <<>>
  /\ uploads = <<>>
  /\ leakedProgressInterval = FALSE
  /\ leakedCrawls = {}
  /\ resetTimers = 0
  /\ localStorage \in StoredValues
  /\ pendingEffects = MountEffects
  /\ providerCalls = {}

\* The page is reloaded: the component starts again from its useState values,
\* the requests and timers of the page before are gone with it, and the
\* browser keeps what was stored.
Reload ==
  /\ pendingEffects = <<>>
  /\ messages' = <<>>
  /\ input' = ""
  /\ isLoading' = FALSE
  /\ error' = Null
  /\ selectedModel' = "mistral"
  /\ internalSummary' = <<>>
  /\ uploadedImages' = <<>>
  /\ aiResponseProgress' = 0
  /\ chatRequests' = <<>>
  /\ uploads' = <<>>
  /\ leakedProgressInterval' = FALSE
  /\ leakedCrawls' = {}
  /\ resetTimers' = 0
  /\ pendingEffects' = MountEffects
  /\ UNCHANGED <<localStorage, providerCalls>>

----------------------------------------------------------------------------
(* handleSubmit *)

\* A guard that looks at the uploads only when nothing is typed.
SubmitGuardTextOnly ==
  ~(isLoading \/ (Trim(input) = "" /\ (Len(uploadedImages) = 0 \/ isProcessingImage)))

\* A guard that forgets the uploads in progress.
SubmitGuardIgnoringUploads ==
  ~((Trim(input) = "" /\ Len(uploadedImages) = 0) \/ isLoading)

\* The negation of the early return of line 151.
SubmitGuard ==
  ~((Trim(input) = "" /\ Len(uploadedImages) = 0) \/ isLoading \/ isProcessingImage)

\* An optimistic update that puts the message first.
PrependUserMessage(prev, userMessageForDisplay) == <<userMessageForDisplay>> \o prev

\* setMessages(prev => [...prev, userMessageForDisplay]) (line 169)
AppendUserMessage(prev, userMessageForDisplay) == Append(prev, userMessageForDisplay)

\* The synchronous part: everything up to the await of fetch('/api/chat').
handleSubmit ==
  /\ Len(messages) < MaxLog
  /\ resetTimers < MaxPendingResets
  /\ IF ~SubmitGuard
     THEN UNCHANGED vars
     ELSE LET currentInput == Trim(input)
              currentImages == uploadedImages
              userMessageForDisplay ==
                [role |-> "user", content |-> currentInput, images |-> currentImages]
              finalContext ==
                FinalContext(messages, currentInput, currentImages, internalSummary)
          IN  /\ input' = ""
              /\ uploadedImages' = <<>>
              /\ messages' = AppendUserMessage(messages, userMessageForDisplay)
              /\ isLoading' = TRUE
              /\ error' = Null
              /\ aiResponseProgress' = 25
              /\ chatRequests' =
                   Append(chatRequests,
                          [pc |-> "fetch",
                           body |-> [messages |-> finalContext, model |-> selectedModel],
                           messages |-> messages,
                           currentInput |-> currentInput,
                           currentImages |-> currentImages,
                           response |-> NoResponse])
              /\ UNCHANGED <<selectedModel, storage, providerCalls, internalSummary, uploads,
                             leakedProgressInterval, leakedCrawls, resetTimers>>

\* A catch block that takes the optimistic user message back.
SubmitCatchRollback(i, errorMessage) ==
  /\ error' = errorMessage
  /\ aiResponseProgress' = 0
  /\ isLoading' = FALSE
  /\ messages' = chatRequests[i].messages
  /\ chatRequests' = RemoveAt(chatRequests, i)
  /\ UNCHANGED <<input, selectedModel, storage, providerCalls, internalSummary, uploadedImages,
                 uploads, leakedCrawls, resetTimers>>

\* The catch and finally blocks (lines 346-355).
SubmitCatch(i, errorMessage) ==
  /\ error' = errorMessage
  /\ aiResponseProgress' = 0
  /\ isLoading' = FALSE
  /\ chatRequests' = RemoveAt(chatRequests, i)
  /\ UNCHANGED <<messages, input, selectedModel, storage, providerCalls, internalSummary, uploadedImages,
                 uploads, leakedCrawls, resetTimers>>

\* An interval that knows no cap.
ProgressTickUncapped ==
  /\ InTickWindow(aiResponseProgress, {0, 25}, ProgressCap)
  /\ leakedProgressInterval \/ \E i \in 1..Len(chatRequests) : chatRequests[i].pc = "fetch"
  /\ \E firings \in {1, ProgressCap} :
       aiResponseProgress' = aiResponseProgress + firings
  /\ UNCHANGED <<messages, input, isLoading, error, selectedModel, storage, providerCalls, internalSummary,
                 uploadedImages, chatRequests, uploads, leakedProgressInterval,
                 leakedCrawls, resetTimers>>

\* progressInterval fires (lines 246-251): the timer of a request still at
\* its fetch, or one that was never cleared.  It fires once, or as often as
\* it takes to reach the value where it stops.
ProgressTick ==
  /\ InTickWindow(aiResponseProgress, {0, 25}, ProgressCap)
  /\ leakedProgressInterval \/ \E i \in 1..Len(chatRequests) : chatRequests[i].pc = "fetch"
  /\ \E firings \in {1, ProgressCap} :
       aiResponseProgress' =
         IF aiResponseProgress >= ProgressCap THEN aiResponseProgress
         ELSE Min({aiResponseProgress + firings, ProgressCap})
  /\ UNCHANGED <<messages, input, isLoading, error, selectedModel, storage, providerCalls, internalSummary,
                 uploadedImages, chatRequests, uploads, leakedProgressInterval,
                 leakedCrawls, resetTimers>>

\* fetch('/api/chat') rejects: control goes to catch past clearInterval.
ChatFetchReject(i) ==
  /\ chatRequests[i].pc = "fetch"
  /\ leakedProgressInterval' = TRUE
  /\ SubmitCatch(i, FetchErrorMessage)

\* A continuation that ends the loading state before the body is read.
ChatFetchResolveUnlocking(i, response) ==
  /\ chatRequests[i].pc = "fetch"
  /\ aiResponseProgress' = ProgressCap
  /\ isLoading' = FALSE
  /\ chatRequests' = ReplaceAt(chatRequests, i,
                       [chatRequests[i] EXCEPT !.pc = "json", !.response = response])
  /\ UNCHANGED <<messages, input, error, selectedModel, storage, providerCalls, internalSummary,
                 uploadedImages, uploads, leakedProgressInterval, leakedCrawls,
                 resetTimers>>

\* fetch('/api/chat') resolves (lines 264-275), up to the await of json().
ChatFetchResolve(i, response) ==
  /\ chatRequests[i].pc = "fetch"
  /\ aiResponseProgress' = ProgressCap
  /\ chatRequests' = ReplaceAt(chatRequests, i,
                       [chatRequests[i] EXCEPT !.pc = "json", !.response = response])
  /\ UNCHANGED <<messages, input, isLoading, error, selectedModel, storage, providerCalls, internalSummary,
                 uploadedImages, uploads, leakedProgressInterval, leakedCrawls,
                 resetTimers>>

\* An updater that stores the user message of an image turn without its images.
ApplyResponseDroppingImages(prev, currentImages, assistantMessage) ==
  LET newHistory ==
        IF Len(currentImages) > 0 /\ Len(prev) > 0
        THEN SubSeq(prev, 1, Len(prev) - 1)
             \o <<AnalysisMsg(currentImages),
                  [role |-> prev[Len(prev)].role, content |-> prev[Len(prev)].content,
                   images |-> <<>>]>>
        ELSE prev
  IN  Append(newHistory, assistantMessage)

\* An updater that stores the analysis after the user message.
ApplyResponseAnalysisLast(prev, currentImages, assistantMessage) ==
  Append(IF Len(currentImages) > 0
         THEN Append(prev, AnalysisMsg(currentImages))
         ELSE prev,
         assistantMessage)

\* The setMessages updater of lines 288-338.
ApplyResponse(prev, currentImages, assistantMessage) ==
  LET newHistory ==
        IF Len(currentImages) > 0 /\ Len(prev) > 0
        THEN SubSeq(prev, 1, Len(prev) - 1)
             \o <<AnalysisMsg(currentImages), prev[Len(prev)]>>
        ELSE prev
  IN  Append(newHistory, assistantMessage)

\* response.json() settles (lines 270-344, or catch).
ChatJsonSettle(i) ==
  LET request == chatRequests[i]
      response == request.response
  IN  /\ request.pc = "json"
      /\ IF response.json = <<>>
         THEN SubmitCatch(i, JsonSyntaxErrorMessage) /\ UNCHANGED leakedProgressInterval
         ELSE LET data == response.json[1]
              IN  IF ~response.ok
                  THEN /\ SubmitCatch(i, IF HasField(data, "error") /\ data.error # ""
                                         THEN data.error ELSE "Failed to get response")
                       /\ UNCHANGED leakedProgressInterval
                  ELSE /\ aiResponseProgress' = 100
                       /\ messages' = ApplyResponse(messages, request.currentImages, data.message)
                       /\ resetTimers' = resetTimers + 1
                       /\ isLoading' = FALSE
                       /\ chatRequests' = RemoveAt(chatRequests, i)
                       /\ UNCHANGED <<input, error, selectedModel, storage, providerCalls, internalSummary,
                                      uploadedImages, uploads, leakedProgressInterval,
                                      leakedCrawls>>

\* The setTimeout of lines 341-344 fires.
ProgressResetTimer ==
  /\ resetTimers > 0
  /\ resetTimers' = resetTimers - 1
  /\ aiResponseProgress' = 0
  /\ UNCHANGED <<messages, input, isLoading, error, selectedModel, storage, providerCalls, internalSummary,
                 uploadedImages, chatRequests, uploads, leakedProgressInterval,
                 leakedCrawls>>

----------------------------------------------------------------------------
(* clearChat, behind a button that is disabled while isLoading *)

\* A clear behind a button that is never disabled.
clearChatWhileLoading ==
  /\ messages' = <<>>
  /\ internalSummary' = <<>>
  /\ uploadedImages' = <<>>
  /\ aiResponseProgress' = 0
  /\ error' = Null
  /\ UNCHANGED <<input, isLoading, selectedModel, storage, providerCalls, chatRequests, uploads,
                 leakedProgressInterval, leakedCrawls, resetTimers>>

\* A clear that leaves the stored summary.
clearChatKeepingSummary ==
  /\ ~isLoading
  /\ messages' = <<>>
  /\ uploadedImages' = <<>>
  /\ aiResponseProgress' = 0
  /\ error' = Null
  /\ UNCHANGED <<input, isLoading, selectedModel, storage, providerCalls, internalSummary, chatRequests,
                 uploads, leakedProgressInterval, leakedCrawls, resetTimers>>

clearChat ==
  /\ ~isLoading
  /\ messages' = <<>>
  /\ internalSummary' = <<>>
  /\ uploadedImages' = <<>>
  /\ aiResponseProgress' = 0
  /\ error' = Null
  /\ UNCHANGED <<input, isLoading, selectedModel, storage, providerCalls, chatRequests, uploads,
                 leakedProgressInterval, leakedCrawls, resetTimers>>

----------------------------------------------------------------------------
(* handleImageUpload and the attachment strip *)

RECURSIVE SumSeq(_)
SumSeq(seq) == IF seq = <<>> THEN 0 ELSE Head(seq) + SumSeq(Tail(seq))

\* The images the messages of the log carry.
ImagesInLog ==
  SumSeq([k \in 1..Len(messages) |->
            IF HasField(messages[k], "images") THEN Len(messages[k].images) ELSE 0])

\* { ...img, ...updates }
Spread(img, updates) ==
  [f \in DOMAIN img \cup DOMAIN updates |->
     IF f \in DOMAIN updates THEN updates[f] ELSE img[f]]

\* An updateImage without the test of the id.
UpdateEveryImage(images, imageId, updates) ==
  [k \in 1..Len(images) |-> Spread(images[k], updates)]

\* updateImage (lines 396-400): every entry with this id takes the updates.
UpdateImage(images, imageId, updates) ==
  [k \in 1..Len(images) |->
     IF images[k].id = imageId THEN Spread(images[k], updates) ELSE images[k]]

\* setUploadedImages(prev => prev.filter(img => img.id !== imageId))
RemoveImageId(images, imageId) == SelectSeq(images, LAMBDA img : img.id # imageId)

\* file.type.startsWith('image/') (line 374)
IsImageType(file) == StartsWith(file.type, "image/")
\* A limit of 100 MiB.
FileTooLargeAt100MiB(file) == file.size > 10 * MaxFileSize
\* A limit that shuts out the file of exactly 10 MiB.
FileTooLargeAtLimit(file) == file.size >= MaxFileSize
\* file.size > 10 * 1024 * 1024 (line 380)
FileTooLarge(file) == file.size > MaxFileSize
IsValidImage(file) == IsImageType(file) /\ ~FileTooLarge(file)

\* A catch block that reports nothing when the attachment is already gone.
UploadCatchGuarded(j, errorMessage) ==
  /\ error' = IF \E k \in 1..Len(uploadedImages) : uploadedImages[k].id = uploads[j].id
              THEN errorMessage
              ELSE error
  /\ uploadedImages' = RemoveImageId(uploadedImages, uploads[j].id)
  /\ uploads' = RemoveAt(uploads, j)
  /\ UNCHANGED <<messages, input, isLoading, selectedModel, storage, providerCalls, internalSummary,
                 aiResponseProgress, chatRequests, leakedProgressInterval,
                 resetTimers>>

\* A catch block that marks the attachment instead of removing it.
UploadCatchKeepingEntry(j, errorMessage) ==
  /\ error' = errorMessage
  /\ uploadedImages' =
       [k \in 1..Len(uploadedImages) |->
          IF uploadedImages[k].id = uploads[j].id
          THEN [uploadedImages[k] EXCEPT !.isUploading = FALSE, !.status = "Failed"]
          ELSE uploadedImages[k]]
  /\ uploads' = RemoveAt(uploads, j)
  /\ UNCHANGED <<messages, input, isLoading, selectedModel, storage, providerCalls, internalSummary,
                 aiResponseProgress, chatRequests, leakedProgressInterval,
                 resetTimers>>

\* The catch block (lines 467-473).
UploadCatch(j, errorMessage) ==
  /\ error' = errorMessage
  /\ uploadedImages' = RemoveImageId(uploadedImages, uploads[j].id)
  /\ uploads' = RemoveAt(uploads, j)
  /\ UNCHANGED <<messages, input, isLoading, selectedModel, storage, providerCalls, internalSummary,
                 aiResponseProgress, chatRequests, leakedProgressInterval,
                 resetTimers>>

\* The synchronous part (lines 370-413), up to the await of the FileReader.
\* The file input and the text field (paste) are disabled while isLoading.
handleImageUpload(file, imageId) ==
  /\ ~isLoading
  /\ IF ~IsImageType(file)
     THEN /\ error' = "Please upload a valid image file"
          /\ UNCHANGED <<messages, input, isLoading, selectedModel, storage, providerCalls, internalSummary,
                         uploadedImages, aiResponseProgress, chatRequests, uploads,
                         leakedProgressInterval, leakedCrawls, resetTimers>>
     ELSE IF FileTooLarge(file)
     THEN /\ error' = "Image size must be less than 10MB"
          /\ UNCHANGED <<messages, input, isLoading, selectedModel, storage, providerCalls, internalSummary,
                         uploadedImages, aiResponseProgress, chatRequests, uploads,
                         leakedProgressInterval, leakedCrawls, resetTimers>>
     ELSE LET initialImageData ==
                [id |-> imageId, url |-> "", description |-> Undefined,
                 processed |-> FALSE, isUploading |-> TRUE, progress |-> 0,
                 status |-> "Starting..."]
          IN  /\ Len(uploads) < MaxUploads
              /\ Len(uploadedImages) + ImagesInLog < MaxUploads
              /\ uploadedImages' =
                   UpdateImage(Append(uploadedImages, initialImageData), imageId,
                     [progress |-> 15, status |-> "Converting..."])
              /\ uploads' = Append(uploads,
                   [id |-> imageId, file |-> file, pc |-> "read", base64 |-> "",
                    response |-> NoResponse])
              /\ UNCHANGED <<messages, input, isLoading, error, selectedModel, storage, providerCalls,
                             internalSummary, aiResponseProgress, chatRequests,
                             leakedProgressInterval, leakedCrawls, resetTimers>>

\* reader.onload, then lines 416-438: the crawl starts and the fetch is issued.
UploadReadDone(j) ==
  /\ uploads[j].pc = "read"
  /\ LET result == DataURL(uploads[j].file)
     IN  /\ uploadedImages' =
               UpdateImage(uploadedImages, uploads[j].id,
                 [progress |-> 40, status |-> "Analyzing Image...", url |-> result])
         /\ uploads' = ReplaceAt(uploads, j,
                         [uploads[j] EXCEPT !.pc = "fetch", !.base64 = result])
  /\ UNCHANGED <<messages, input, isLoading, error, selectedModel, storage, providerCalls, internalSummary,
                 aiResponseProgress, chatRequests, leakedProgressInterval,
                 leakedCrawls, resetTimers>>

\* reader.onerror rejects with an event, which is no Error.
UploadReadFail(j) ==
  /\ uploads[j].pc = "read"
  /\ UploadCatch(j, "Failed to process image")
  /\ UNCHANGED leakedCrawls

\* The crawl interval of lines 420-427 fires: the one of an upload still at
\* its fetch, or one that was never cleared.
CrawlTick(imageId) ==
  /\ \A k \in 1..Len(uploadedImages) :
       uploadedImages[k].id = imageId /\ uploadedImages[k].progress # NoProgress
         => InTickWindow(uploadedImages[k].progress, {15, 40}, CrawlCap)
  /\ \/ imageId \in leakedCrawls
     \/ \E j \in 1..Len(uploads) : uploads[j].pc = "fetch" /\ uploads[j].id = imageId
  /\ uploadedImages' =
       [k \in 1..Len(uploadedImages) |->
          LET img == uploadedImages[k]
          IN  IF img.id = imageId /\ img.progress # NoProgress /\ img.progress < CrawlCap
              THEN [img EXCEPT !.progress = img.progress + 1]
              ELSE img]
  /\ UNCHANGED <<messages, input, isLoading, error, selectedModel, storage, providerCalls, internalSummary,
                 aiResponseProgress, chatRequests, uploads, leakedProgressInterval,
                 leakedCrawls, resetTimers>>

\* fetch('/api/image') rejects: control goes to catch past clearInterval.
UploadFetchReject(j) ==
  /\ uploads[j].pc = "fetch"
  /\ leakedCrawls' = leakedCrawls \cup {uploads[j].id}
  /\ UploadCatch(j, FetchErrorMessage)

\* fetch('/api/image') resolves (lines 440-450), up to the await of json().
UploadFetchResolve(j, response) ==
  /\ uploads[j].pc = "fetch"
  /\ uploadedImages' =
       IF response.ok
       THEN UpdateImage(uploadedImages, uploads[j].id,
              [progress |-> 90, status |-> "Finalizing..."])
       ELSE uploadedImages
  /\ uploads' = ReplaceAt(uploads, j,
                  [uploads[j] EXCEPT !.pc = "json", !.response = response])
  /\ UNCHANGED <<messages, input, isLoading, error, selectedModel, storage, providerCalls, internalSummary,
                 aiResponseProgress, chatRequests, leakedProgressInterval,
                 leakedCrawls, resetTimers>>

\* processResponse.json() settles (lines 442-465, or catch).
UploadJsonSettle(j) ==
  LET upload == uploads[j]
      response == upload.response
  IN  /\ upload.pc = "json"
      /\ UNCHANGED leakedCrawls
      /\ IF ~response.ok
         THEN LET errorData == IF response.json = <<>> THEN [none |-> ""]
                               ELSE response.json[1]
              IN  UploadCatch(j, IF HasField(errorData, "error") /\ errorData.error # ""
                                 THEN errorData.error
                                 ELSE "Server error: " \o ToString(response.status))
         ELSE IF response.json = <<>>
         THEN UploadCatch(j, JsonSyntaxErrorMessage)
         ELSE LET imageDescription == response.json[1].description
              IN  /\ uploadedImages' =
                       UpdateImage(uploadedImages, upload.id,
                         [progress |-> 100, status |-> "Complete",
                          description |-> JSONStringify(imageDescription),
                          processed |-> TRUE, isUploading |-> FALSE])
                  /\ uploads' = ReplaceAt(uploads, j, [upload EXCEPT !.pc = "timer"])
                  /\ UNCHANGED <<messages, input, isLoading, error, selectedModel, storage, providerCalls,
                                 internalSummary, aiResponseProgress, chatRequests,
                                 leakedProgressInterval, resetTimers>>

\* The setTimeout of lines 463-465 fires.
UploadResetTimer(j) ==
  /\ uploads[j].pc = "timer"
  /\ uploadedImages' =
       UpdateImage(uploadedImages, uploads[j].id,
         [progress |-> NoProgress, status |-> Undefined])
  /\ uploads' = RemoveAt(uploads, j)
  /\ UNCHANGED <<messages, input, isLoading, error, selectedModel, storage, providerCalls, internalSummary,
                 aiResponseProgress, chatRequests, leakedProgressInterval,
                 leakedCrawls, resetTimers>>

\* removeImage, behind a button shown only on an entry that is not uploading.
removeImage(index) ==
  /\ index \in 1..Len(uploadedImages)
  /\ ~uploadedImages[index].isUploading
  /\ uploadedImages' = RemoveAt(uploadedImages, index)
  /\ UNCHANGED <<messages, input, isLoading, error, selectedModel, storage, providerCalls, internalSummary,
                 aiResponseProgress, chatRequests, uploads, leakedProgressInterval,
                 leakedCrawls, resetTimers>>

----------------------------------------------------------------------------
(* The specification *)

ChatResponses(body) ==
  {ChatRoute(body, env, o) : env \in Envs, o \in ChatOutcomes} \cup PlatformResponses
ImageResponses(imageUrl) ==
  {ImageRoute(imageUrl, env, o) : env \in Envs, o \in VisionOutcomes} \cup PlatformResponses

ValidFiles == {file \in Files : IsValidImage(file)}
DeployedEnv == [OPENROUTER_API_KEY |-> "sk-or-v1-0"]
\* The answers of /api/image when the vision provider answers 2xx with a text.
ImageDescribed(imageUrl) ==
  {ImageRoute(imageUrl, DeployedEnv, [kind |-> "ok", choices |-> <<c>>]) :
     c \in VisionContents \ {""}}

\* An id no attachment, running upload or live crawl timer has: what
\* Math.random() yields but for a collision.
IdsInUse ==
  {uploadedImages[k].id : k \in 1..Len(uploadedImages)}
  \cup {uploads[j].id : j \in 1..Len(uploads)} \cup leakedCrawls
FreshIds ==
  IF Ids \subseteq IdsInUse THEN {}
  ELSE {CHOOSE imageId \in Ids \ IdsInUse : TRUE}

Next ==
  \/ \E text \in InputTexts : SetInput(text)
  \/ \E model \in Models : SelectModel(model)
  \/ handleSubmit
  \/ ProgressTick
  \/ \E i \in 1..Len(chatRequests) : ChatFetchReject(i)
  \/ \E i \in 1..Len(chatRequests) :
       \E response \in ChatResponses(chatRequests[i].body) : ChatFetchResolve(i, response)
  \/ \E i \in 1..Len(chatRequests) : ChatJsonSettle(i)
  \/ ProgressResetTimer
  \/ clearChat
  \/ \E file \in Files, imageId \in Ids : handleImageUpload(file, imageId)
  \/ \E j \in 1..Len(uploads) : UploadReadDone(j)
  \/ \E j \in 1..Len(uploads) : UploadReadFail(j)
  \/ \E imageId \in Ids : CrawlTick(imageId)
  \/ \E j \in 1..Len(uploads) : UploadFetchReject(j)
  \/ \E j \in 1..Len(uploads) :
       \E response \in ImageResponses(uploads[j].base64) : UploadFetchResolve(j, response)
  \/ \E j \in 1..Len(uploads) : UploadJsonSettle(j)
  \/ \E j \in 1..Len(uploads) : UploadResetTimer(j)
  \/ \E index \in 1..MaxUploads : removeImage(index)
  \/ LoadEffect
  \/ SaveEffect
  \/ Reload

\* The whole component in every environment.
Spec == Init /\ [][Next]_vars

\* The answers of the two routes of the deployment with its key set.
ChatAnswers(body) == {ChatRoute(body, DeployedEnv, o) : o \in ChatOutcomes}
ImageAnswers(imageUrl) == {ImageRoute(imageUrl, DeployedEnv, o) : o \in VisionOutcomes}

\* The conversation: every file, one upload at a time, each described by the
\* vision provider; every answer and failure of the completion request.  The
\* interval timer and removeImage are left to Next.
NextChat ==
  \/ \E text \in InputTexts : SetInput(text)
  \/ handleSubmit
  \/ \E i \in 1..Len(chatRequests) : ChatFetchReject(i)
  \/ \E i \in 1..Len(chatRequests) :
       \E response \in ChatAnswers(chatRequests[i].body) \cup PlatformResponses :
         ChatFetchResolve(i, response)
  \/ \E i \in 1..Len(chatRequests) : ChatJsonSettle(i)
  \/ ProgressResetTimer
  \/ clearChat
  \/ /\ uploads = <<>>
     /\ \E file \in Files : \E imageId \in FreshIds : handleImageUpload(file, imageId)
  \/ \E j \in 1..Len(uploads) : UploadReadDone(j)
  \/ \E j \in 1..Len(uploads) :
       \E response \in ImageDescribed(uploads[j].base64) : UploadFetchResolve(j, response)
  \/ \E j \in 1..Len(uploads) : UploadJsonSettle(j)
  \/ \E j \in 1..Len(uploads) : UploadResetTimer(j)

SpecChat == Init /\ [][NextChat]_vars

\* The attachment strip: every file, uploads running side by side, every id
\* Math.random() can repeat, every answer and failure of the description
\* request, with no turn submitted.  The crawl timer is left to Next.
NextUpload ==
  \/ clearChat
  \/ \E file \in Files, imageId \in Ids : handleImageUpload(file, imageId)
  \/ \E j \in 1..Len(uploads) : UploadReadDone(j)
  \/ \E j \in 1..Len(uploads) : UploadReadFail(j)
  \/ \E j \in 1..Len(uploads) : UploadFetchReject(j)
  \/ \E j \in 1..Len(uploads) :
       \E response \in ImageAnswers(uploads[j].base64) \cup PlatformResponses :
         UploadFetchResolve(j, response)
  \/ \E j \in 1..Len(uploads) : UploadJsonSettle(j)
  \/ \E j \in 1..Len(uploads) : UploadResetTimer(j)
  \/ \E index \in 1..MaxUploads : removeImage(index)

SpecUpload == Init /\ [][NextUpload]_vars

\* Uploads side by side: two files, ids that can repeat, the crawl timer, the
\* answers of the description request arriving in any order, a network
\* failure among them.
NextConcurrent ==
  \/ \E file \in Photos, imageId \in Ids : handleImageUpload(file, imageId)
  \/ \E j \in 1..Len(uploads) : UploadReadDone(j)
  \/ \E imageId \in Ids : CrawlTick(imageId)
  \/ \E j \in 1..Len(uploads) : UploadFetchReject(j)
  \/ \E j \in 1..Len(uploads) :
       \E response \in ImageDescribed(uploads[j].base64) : UploadFetchResolve(j, response)
  \/ \E j \in 1..Len(uploads) : UploadJsonSettle(j)
  \/ \E j \in 1..Len(uploads) : UploadResetTimer(j)

SpecConcurrent == Init /\ [][NextConcurrent]_vars

\* The progress of a turn: the conversation without attachments, with the
\* interval timer, every answer and failure of the completion request.
NextProgress ==
  \/ \E text \in InputTexts : SetInput(text)
  \/ handleSubmit
  \/ ProgressTick
  \/ \E i \in 1..Len(chatRequests) : ChatFetchReject(i)
  \/ \E i \in 1..Len(chatRequests) :
       \E response \in ChatAnswers(chatRequests[i].body) \cup PlatformResponses :
         ChatFetchResolve(i, response)
  \/ \E i \in 1..Len(chatRequests) : ChatJsonSettle(i)
  \/ ProgressResetTimer
  \/ clearChat

SpecProgress == Init /\ [][NextProgress]_vars

\* What the render passes to the markdown component for each message of the
\* log (both branches of the message list).
Rendered == [k \in 1..Len(messages) |-> formatMathContent(messages[k].content)]

\* The completion route answering with a reply that holds math notation.
MathAnswer(body, reply) ==
  ChatRoute(body, DeployedEnv,
            [kind |-> "ok", message |-> <<[role |-> "assistant", content |-> reply]>>])

\* The rendering of replies: a turn of conversation answered with any of the
\* math texts.
NextRender ==
  \/ \E text \in InputTexts : SetInput(text)
  \/ handleSubmit
  \/ \E i \in 1..Len(chatRequests) :
       \E reply \in MathTexts :
         ChatFetchResolve(i, MathAnswer(chatRequests[i].body, reply))
  \/ \E i \in 1..Len(chatRequests) : ChatJsonSettle(i)
  \/ ProgressResetTimer

SpecRender == Init /\ [][NextRender]_vars

\* The model preference across reloads: the page opened on any stored value,
\* the two effects, the dropdown, a turn of conversation with the selected
\* model, and the reload.
NextReload ==
  \/ LoadEffect
  \/ SaveEffect
  \/ \E model \in Models : SelectModel(model)
  \/ Reload
  \/ \E text \in InputTexts : SetInput(text)
  \/ handleSubmit
  \/ \E i \in 1..Len(chatRequests) :
       \E response \in ChatAnswers(chatRequests[i].body) : ChatFetchResolve(i, response)
  \/ \E i \in 1..Len(chatRequests) : ChatJsonSettle(i)
  \/ ProgressResetTimer

SpecReload == InitLoad /\ [][NextReload]_vars

\* Failures of both kinds of request in one conversation: every file, one
\* upload at a time, the encoding failing, every answer of the two routes and
\* of the platform, the network failing under a completion request.
NextFailures ==
  \/ \E text \in InputTexts : SetInput(text)
  \/ handleSubmit
  \/ \E i \in 1..Len(chatRequests) : ChatFetchReject(i)
  \/ \E i \in 1..Len(chatRequests) :
       \E response \in ChatAnswers(chatRequests[i].body) \cup PlatformResponses :
         ChatFetchResolve(i, response)
  \/ \E i \in 1..Len(chatRequests) : ChatJsonSettle(i)
  \/ ProgressResetTimer
  \/ clearChat
  \/ /\ uploads = <<>>
     /\ \E file \in Files : \E imageId \in FreshIds : handleImageUpload(file, imageId)
  \/ \E j \in 1..Len(uploads) : UploadReadDone(j)
  \/ \E j \in 1..Len(uploads) : UploadReadFail(j)
  \/ \E j \in 1..Len(uploads) :
       \E response \in ImageAnswers(uploads[j].base64) \cup PlatformResponses :
         UploadFetchResolve(j, response)
  \/ \E j \in 1..Len(uploads) : UploadJsonSettle(j)
  \/ \E j \in 1..Len(uploads) : UploadResetTimer(j)

SpecFailures == Init /\ [][NextFailures]_vars

----------------------------------------------------------------------------
(* The routes at work: every call to a provider is a step of its own and    *)
(* is entered in providerCalls.  The other specifications draw a route's    *)
(* answer from ImageAnswers and ChatAnswers and leave the calls behind it   *)
(* unrecorded.                                                              *)

\* The models the image route with the fallback list tries, in this order.
visionModels ==
  << "google/gemini-2.0-flash-exp:free", "google/gemma-3-27b-it:free",
     "google/gemma-3-12b-it:free", "nvidia/nemotron-nano-12b-v2-vl:free",
     "qwen/qwen2.5-vl-72b-instruct:free", "moonshotai/kimi-vl-a3b-thinking:free" >>

\* error.message of a fetch that throws in the route handler.
ServerFetchErrorMessage == "fetch failed"

\* The calls made to a provider for one request of one route, in the order
\* they were made.
CallsOf(route, request) ==
  LET made == {call \in providerCalls : call.route = route /\ call.request = request}
  IN  [n \in 1..Cardinality(made) |-> CHOOSE call \in made : call.n = n]

\* The for loop is over: a model answered 2xx (break), or the list is used up.
VisionLoopDone(calls) ==
  /\ calls # <<>>
  /\ calls[Len(calls)].ok \/ Len(calls) = Len(visionModels)

\* lastError as the loop leaves it after a call that failed.
LastError(model, outcome) ==
  "Model " \o model \o ": "
  \o (IF outcome.kind = "http"
      THEN ToString(outcome.status) \o " " \o outcome.text
      ELSE ServerFetchErrorMessage)

\* What the route answers after the loop, from the model called last and
\* what that call brought.
VisionLoopResponse(model, outcome) ==
  IF outcome.kind # "ok"
  THEN JsonResponse(500,
         [error |-> "All Nvidia vision models failed. Last error: "
                    \o LastError(model, outcome)])
  ELSE LET description ==
             IF outcome.choices = <<>> THEN "" ELSE outcome.choices[1]
       IN  IF description = ""
           THEN JsonResponse(500, [error |-> "Failed to get image description"])
           ELSE LET parsed == JSONParse(description)
                IN  IF parsed.ok
                    THEN JsonResponse(200, [description |-> parsed.value])
                    ELSE JsonResponse(200,
                           [description |->
                              DescriptionObject(description, <<>>, <<>>,
                                "Image description from vision model")])

\* One turn of the loop for the upload at its fetch: the next model of the
\* list is called, and the call answers 2xx or fails.
VisionRouteCall(j, ok) ==
  LET calls == CallsOf("image", uploads[j].id)
  IN  /\ uploads[j].pc = "fetch"
      /\ uploads[j].base64 # ""
      /\ Trim(DeployedEnv.OPENROUTER_API_KEY) # ""
      /\ ~VisionLoopDone(calls)
      /\ providerCalls' =
           providerCalls \cup
             {[route |-> "image", request |-> uploads[j].id, n |-> Len(calls) + 1,
               model |-> visionModels[Len(calls) + 1], ok |-> ok]}
      /\ UNCHANGED <<messages, input, isLoading, error, selectedModel, storage,
                     internalSummary, uploadedImages, aiResponseProgress, chatRequests,
                     uploads, leakedProgressInterval, leakedCrawls, resetTimers>>

\* The route returns and the client's fetch resolves with its answer; what
\* the last call brought is read after the loop.
UploadRouteAnswers(j, outcome) ==
  LET calls == CallsOf("image", uploads[j].id)
  IN  /\ VisionLoopDone(calls)
      /\ (outcome.kind = "ok") = calls[Len(calls)].ok
      /\ UploadFetchResolve(j, VisionLoopResponse(calls[Len(calls)].model, outcome))

\* The user turn a completion request belongs to, by its place in the log.
TurnOf(request) == Len(request.messages)

\* The one call of the chat route for the request at its fetch.
CompletionRouteCall(i, ok) ==
  /\ chatRequests[i].pc = "fetch"
  /\ Len(chatRequests[i].body.messages) # 0
  /\ Trim(DeployedEnv.OPENROUTER_API_KEY) # ""
  /\ CallsOf("chat", TurnOf(chatRequests[i])) = <<>>
  /\ providerCalls' =
       providerCalls \cup
         {[route |-> "chat", request |-> TurnOf(chatRequests[i]), n |-> 1,
           model |-> chatRequests[i].body.model, ok |-> ok]}
  /\ UNCHANGED <<messages, input, isLoading, error, selectedModel, storage,
                 internalSummary, uploadedImages, aiResponseProgress, chatRequests,
                 uploads, leakedProgressInterval, leakedCrawls, resetTimers>>

\* The chat route reads what its call brought and returns, and the client's
\* fetch resolves with its answer.
ChatRouteAnswers(i, outcome) ==
  LET calls == CallsOf("chat", TurnOf(chatRequests[i]))
  IN  /\ calls # <<>>
      /\ (outcome.kind = "ok") = calls[1].ok
      /\ ChatFetchResolve(i, ChatRoute(chatRequests[i].body, DeployedEnv, outcome))

\* The uploads the image route has called a provider for.
RoutedUploads == {call.request : call \in {c \in providerCalls : c.route = "image"}}

\* One accepted upload at a time under an id no call was made for yet,
\* submits, and the two routes calling their providers.
NextVision ==
  \/ \E text \in InputTexts : SetInput(text)
  \/ handleSubmit
  \/ \E i \in 1..Len(chatRequests) : \E ok \in BOOLEAN : CompletionRouteCall(i, ok)
  \/ \E i \in 1..Len(chatRequests) : \E outcome \in ChatOutcomes :
       ChatRouteAnswers(i, outcome)
  \/ \E i \in 1..Len(chatRequests) : ChatJsonSettle(i)
  \/ ProgressResetTimer
  \/ /\ uploads = <<>>
     /\ Cardinality(RoutedUploads) < MaxRoutedUploads
     /\ \E file \in ValidFiles : \E imageId \in Ids \ IdsInUse :
          /\ imageId \notin RoutedUploads
          /\ handleImageUpload(file, imageId)
  \/ \E j \in 1..Len(uploads) : UploadReadDone(j)
  \/ \E j \in 1..Len(uploads) : \E ok \in BOOLEAN : VisionRouteCall(j, ok)
  \/ \E j \in 1..Len(uploads) : \E outcome \in VisionOutcomes :
       UploadRouteAnswers(j, outcome)
  \/ \E j \in 1..Len(uploads) : UploadJsonSettle(j)
  \/ \E j \in 1..Len(uploads) : UploadResetTimer(j)

SpecVision == Init /\ [][NextVision]_vars

\* The filter of the message list (line 979).
Visible(m) ==
  /\ m.role # "system"
  /\ ~StartsWith(m.content, "[HIDDEN_ANALYSIS]")
  /\ ~StartsWith(m.content, "[CONTEXT: IMAGE ANALYSIS]")

\* The messages the list shows, in their order.
VisibleMessages == SelectSeq(messages, Visible)

\* Texts that begin the way the hidden messages do, typed by the user or
\* written by the assistant.
MarkedTexts == {"[CONTEXT: IMAGE ANALYSIS] what is that?", "[HIDDEN_ANALYSIS] none"}

\* The completion route answering with this reply.
ReplyAnswer(body, reply) ==
  ChatRoute(body, DeployedEnv,
            [kind |-> "ok", message |-> <<[role |-> "assistant", content |-> reply]>>])

\* What the message list shows: turns with and without images, with any of
\* the texts typed and any of them answered.
NextVisible ==
  \/ \E text \in InputTexts \cup MarkedTexts : SetInput(text)
  \/ handleSubmit
  \/ \E i \in 1..Len(chatRequests) :
       \E reply \in Replies \cup MarkedTexts :
         ChatFetchResolve(i, ReplyAnswer(chatRequests[i].body, reply))
  \/ \E i \in 1..Len(chatRequests) : ChatJsonSettle(i)
  \/ ProgressResetTimer
  \/ clearChat
  \/ /\ uploads = <<>>
     /\ \E file \in ValidFiles : \E imageId \in FreshIds : handleImageUpload(file, imageId)
  \/ \E j \in 1..Len(uploads) : UploadReadDone(j)
  \/ \E j \in 1..Len(uploads) :
       \E response \in ImageDescribed(uploads[j].base64) : UploadFetchResolve(j, response)
  \/ \E j \in 1..Len(uploads) : UploadJsonSettle(j)
  \/ \E j \in 1..Len(uploads) : UploadResetTimer(j)

SpecVisible == Init /\ [][NextVisible]_vars

\* The summary the disabled summary feature would store (lines 582-588).
SummaryMessage ==
  [role |-> "system", content |-> "Pengguna menyapa dan asisten membalas salam."]

\* The conversation carried on from a stored summary.  setInternalSummary is
\* called only by the disabled feature, so the component is started here with
\* the summary that feature leaves; clearChat brings it back to Init.
InitCarried ==
  /\ messages = <<>>
  /\ input = ""
  /\ isLoading = FALSE
  /\ error = Null
  /\ selectedModel = "mistral"
  /\ internalSummary = <<SummaryMessage>>
  /\ uploadedImages = <<>>
  /\ aiResponseProgress = 0
  /\ chatRequests = <<>>
  /\ uploads = <<>>
  /\ leakedProgressInterval = FALSE
  /\ leakedCrawls = {}
  /\ resetTimers = 0
  /\ localStorage = "mistral"
  /\ pendingEffects = <<>>
  /\ providerCalls = {}

NextCarried ==
  \/ \E text \in InputTexts : SetInput(text)
  \/ handleSubmit
  \/ \E i \in 1..Len(chatRequests) :
       \E response \in ChatAnswers(chatRequests[i].body) : ChatFetchResolve(i, response)
  \/ \E i \in 1..Len(chatRequests) : ChatJsonSettle(i)
  \/ ProgressResetTimer
  \/ clearChat
  \/ /\ uploads = <<>>
     /\ \E file \in ValidFiles : \E imageId \in FreshIds : handleImageUpload(file, imageId)
  \/ \E j \in 1..Len(uploads) : UploadReadDone(j)
  \/ \E j \in 1..Len(uploads) :
       \E response \in ImageDescribed(uploads[j].base64) : UploadFetchResolve(j, response)
  \/ \E j \in 1..Len(uploads) : UploadJsonSettle(j)
  \/ \E j \in 1..Len(uploads) : UploadResetTimer(j)

SpecCarried == InitCarried /\ [][NextCarried]_vars

\* The context of a submit in every situation a submit can be made in: with
\* or without a stored summary, after a failure, a clear or a model change,
\* with the interval timer of a failed request still running.
InitContext == Init \/ InitCarried

NextContext ==
  \/ \E text \in InputTexts : SetInput(text)
  \/ \E model \in Models : SelectModel(model)
  \/ SaveEffect
  \/ handleSubmit
  \/ ProgressTick
  \/ \E i \in 1..Len(chatRequests) : ChatFetchReject(i)
  \/ \E i \in 1..Len(chatRequests) :
       \E response \in ChatAnswers(chatRequests[i].body) : ChatFetchResolve(i, response)
  \/ \E i \in 1..Len(chatRequests) : ChatJsonSettle(i)
  \/ ProgressResetTimer
  \/ clearChat
  \/ /\ uploads = <<>>
     /\ \E file \in ValidFiles : \E imageId \in FreshIds : handleImageUpload(file, imageId)
  \/ \E j \in 1..Len(uploads) : UploadReadDone(j)
  \/ \E j \in 1..Len(uploads) :
       \E response \in ImageDescribed(uploads[j].base64) : UploadFetchResolve(j, response)
  \/ \E j \in 1..Len(uploads) : UploadJsonSettle(j)
  \/ \E j \in 1..Len(uploads) : UploadResetTimer(j)

SpecContext == InitContext /\ [][NextContext]_vars

----------------------------------------------------------------------------
(* Properties: the conversation *)

\* The user message of the turn a running request belongs to.
UserTurn(request) ==
  [role |-> "user", content |-> request.currentInput,
   images |-> request.currentImages]

\* A synthesized analysis message: user role, the analysis marker, no images.
IsAnalysis(msg) ==
  /\ DOMAIN msg = {"role", "content"}
  /\ msg.role = "user"
  /\ StartsWith(msg.content, "[CONTEXT: IMAGE ANALYSIS]")

\* The positions of text at which part occurs.
Occurrences(text, part) ==
  {k \in 1..(Len(text) - Len(part) + 1) : SubSeq(text, k, k + Len(part) - 1) = part}

C1_MaySubmit ==
  /\ Trim(input) # "" \/ Len(uploadedImages) >= 1
  /\ \A k \in 1..Len(uploadedImages) : ~uploadedImages[k].isUploading
  /\ chatRequests = <<>>

\* C1: a submit starts a completion request exactly when the trimmed input is
\* non-empty or at least one attachment exists, and no attachment is uploading,
\* and no completion request is in flight; any other submit changes nothing.
C1_SubmitAcceptance ==
  [][handleSubmit =>
       /\ C1_MaySubmit <=> (Len(chatRequests') = Len(chatRequests) + 1)
       /\ ~C1_MaySubmit => UNCHANGED vars]_vars

\* A request started from a blank text field with an attachment is in flight.
C1_Witness ==
  /\ Len(chatRequests) = 1
  /\ chatRequests[1].pc = "fetch"
  /\ chatRequests[1].currentInput = ""
  /\ Len(chatRequests[1].currentImages) >= 1

\* C2: when a completion request succeeds, the log is the log as it was just
\* before the submit followed by the analysis message, the user message and
\* the assistant message if the turn carried images, and by the user message
\* and the assistant message if it carried none.
C2_LogAfterSuccess ==
  [][\A i \in 1..Len(chatRequests) :
       LET request == chatRequests[i]
           response == request.response
       IN  (ChatJsonSettle(i) /\ response.ok /\ response.json # <<>>)
             => LET priorLog == request.messages
                    N == Len(request.currentImages)
                    assistant == response.json[1].message
                IN  /\ Len(messages') = Len(priorLog) + (IF N >= 1 THEN 3 ELSE 2)
                    /\ SubSeq(messages', 1, Len(priorLog)) = priorLog
                    /\ N >= 1 => IsAnalysis(messages'[Len(priorLog) + 1])
                    /\ messages'[Len(messages') - 1] = UserTurn(request)
                    /\ messages'[Len(messages')] = assistant]_vars

\* A turn with images has succeeded on a log that held an earlier turn.
C2_Witness ==
  /\ ~isLoading
  /\ Len(messages) = 4
  /\ IsAnalysis(messages[2])
  /\ HasField(messages[3], "images") /\ Len(messages[3].images) >= 1
  /\ messages[4].role = "assistant"

C3_InFlightLast ==
  \A i \in 1..Len(chatRequests) :
    /\ messages # <<>>
    /\ messages[Len(messages)] = UserTurn(chatRequests[i])

\* The user messages of the log, which are the entries with an images field.
UserTurns(log) == SelectSeq(log, LAMBDA msg : HasField(msg, "images"))

C3_SubmitAppends ==
  (handleSubmit /\ Len(chatRequests') = Len(chatRequests) + 1)
    => messages' = Append(messages, [role |-> "user", content |-> Trim(input),
                                     images |-> uploadedImages])

C3_OrderKept ==
  \/ messages' = <<>>
  \/ UserTurns(messages') = UserTurns(messages)
  \/ /\ messages' # <<>>
     /\ UserTurns(messages') = Append(UserTurns(messages), messages'[Len(messages')])

\* C3: the user message of a turn is appended to the log by the submit that
\* issues the request, so while a completion request is in flight the last
\* entry of the log is that turn's user message, whatever the request's
\* outcome will be; user messages stay in the log in submission order.
C3_UserMessageFirst ==
  [](C3_InFlightLast) /\ [][C3_SubmitAppends /\ C3_OrderKept]_vars

\* A second turn is in flight behind the user message of a failed first turn.
C3_Witness ==
  /\ Len(chatRequests) = 1
  /\ Len(messages) = 2
  /\ HasField(messages[1], "images")
  /\ messages[2] = UserTurn(chatRequests[1])

\* C4: when the completion endpoint answers non-2xx with a JSON body, error
\* becomes the body's error field, or the generic message when the body has
\* none, loading is false, and the log is the prior log with the turn's user
\* message last: no assistant or analysis message is added.
C4_FailureKeepsUserMessage ==
  [][\A i \in 1..Len(chatRequests) :
       LET request == chatRequests[i]
           response == request.response
       IN  (ChatJsonSettle(i) /\ ~response.ok /\ response.json # <<>>)
             => /\ error' = IF HasField(response.json[1], "error")
                            THEN response.json[1].error
                            ELSE "Failed to get response"
                /\ isLoading' = FALSE
                /\ messages' = messages
                /\ messages' = Append(request.messages, UserTurn(request))]_vars

\* The provider's 429 has been shown and the user message is still last.
C4_Witness ==
  /\ ~isLoading
  /\ chatRequests = <<>>
  /\ error = "OpenRouter API error: 429 Too Many Requests"
  /\ messages # <<>>
  /\ HasField(messages[Len(messages)], "images")

\* C5: immediately after clearChat the log is empty, the attachment set is
\* empty, no summary is carried, error is null and the progress is 0.
C5_ClearResets ==
  [][clearChat =>
       /\ messages' = <<>>
       /\ uploadedImages' = <<>>
       /\ internalSummary' = <<>>
       /\ error' = Null
       /\ aiResponseProgress' = 0]_vars

\* The carried summary is gone and an upload started before the clear is
\* still running.
C5_Witness ==
  /\ messages = <<>>
  /\ uploadedImages = <<>>
  /\ internalSummary = <<>>
  /\ error = Null
  /\ aiResponseProgress = 0
  /\ \E j \in 1..Len(uploads) : uploads[j].pc = "fetch"

\* C6: the context of a completion request is, in this order, the persona
\* message (exactly once, first), the carried summary if there is one, the log
\* as it was just before the submit, the analysis message if the turn has
\* images, and the new user message; every element has the fields role and
\* content and no other.
C6_ContextOrder ==
  \A i \in 1..Len(chatRequests) :
    LET request == chatRequests[i]
        context == request.body.messages
        n == Len(context)
        s == Len(internalSummary)
        p == Len(messages) - 1
        a == IF Len(request.currentImages) >= 1 THEN 1 ELSE 0
    IN  /\ n = 1 + s + p + a + 1
        /\ \A k \in 1..n : DOMAIN context[k] = {"role", "content"}
        /\ context[1] = [role |-> "system", content |-> BaseSystemMessage.content]
        /\ \A k \in 2..n : context[k].content # BaseSystemMessage.content
        /\ \A k \in 1..s :
             context[1 + k] = [role |-> internalSummary[k].role,
                               content |-> internalSummary[k].content]
        /\ \A k \in 1..p :
             context[1 + s + k] = [role |-> messages[k].role,
                                   content |-> messages[k].content]
        /\ a = 1 => IsAnalysis(context[n - 1])
        /\ context[n] = [role |-> "user", content |-> request.currentInput]

\* A request is in flight whose context holds a summary, an earlier turn
\* that had an image, and this turn's analysis.
C6_Witness ==
  /\ Len(chatRequests) = 1
  /\ internalSummary # <<>>
  /\ Len(messages) = 2
  /\ Len(messages[1].images) >= 1
  /\ Len(chatRequests[1].currentImages) >= 1

\* The labelled descriptions of images from the k-th on occur in text in
\* this order from position from on.
RECURSIVE ListedInOrder(_, _, _, _)
ListedInOrder(text, images, k, from) ==
  IF k > Len(images) THEN TRUE
  ELSE LET entry == "[IMAGE " \o ToString(k) \o " ANALYSIS]:\n"
                    \o images[k].description
           at == {o \in Occurrences(text, entry) : o >= from}
       IN  at # {} /\ ListedInOrder(text, images, k + 1, Min(at) + Len(entry))

\* C7: the context of a turn with N >= 1 images has, after the prior log,
\* exactly one analysis message, of user role, immediately before the new
\* user text; it lists the description of every image of the turn in
\* attachment order under the labels IMAGE 1 to IMAGE N and no other.  The
\* context of a turn without images has no such message.
C7_AnalysisMessage ==
  \A i \in 1..Len(chatRequests) :
    LET request == chatRequests[i]
        context == request.body.messages
        images == request.currentImages
        N == Len(images)
        turn == SubSeq(context, 1 + Len(internalSummary) + Len(messages),
                       Len(context))
        userText == [role |-> "user", content |-> request.currentInput]
    IN  IF N = 0
        THEN turn = <<userText>>
        ELSE /\ Len(turn) = 2
             /\ IsAnalysis(turn[1])
             /\ turn[2] = userText
             /\ ListedInOrder(turn[1].content, images, 1, 1)
             /\ Cardinality(Occurrences(turn[1].content, "[IMAGE ")) = N

\* A turn with two images of different descriptions is in flight.
C7_Witness ==
  /\ Len(chatRequests) = 1
  /\ Len(chatRequests[1].currentImages) = 2
  /\ chatRequests[1].currentImages[1].description
       # chatRequests[1].currentImages[2].description

----------------------------------------------------------------------------
(* Properties: the attachments *)

\* C8: a file whose type is no image type, or whose size exceeds 10 MiB, is
\* rejected by handleImageUpload before any request: no attachment is added,
\* no upload or completion request starts, the log is unchanged, and error
\* is set to a message.
C8_InvalidFileRejected ==
  [][\A file \in Files, imageId \in Ids :
       (/\ handleImageUpload(file, imageId)
        /\ ~StartsWith(file.type, "image/") \/ file.size > 10 * 1024 * 1024)
         => /\ uploadedImages' = uploadedImages
            /\ uploads' = uploads
            /\ chatRequests' = chatRequests
            /\ messages' = messages
            /\ error' \notin {Null, ""}]_vars

\* The size message is shown over a log that has a turn, with nothing added.
C8_Witness ==
  /\ error = "Image size must be less than 10MB"
  /\ messages # <<>>
  /\ uploadedImages = <<>>
  /\ uploads = <<>>

C9_CompleteDescribed ==
  \A k \in 1..Len(uploadedImages) :
    ~uploadedImages[k].isUploading
      => /\ uploadedImages[k].processed
         /\ uploadedImages[k].description \notin {Undefined, ""}

C9_Accepted ==
  \A file \in Files, imageId \in Ids :
    (/\ handleImageUpload(file, imageId)
     /\ StartsWith(file.type, "image/")
     /\ file.size <= 10 * 1024 * 1024)
      => /\ Len(uploads') = Len(uploads) + 1
         /\ Len(uploadedImages') = Len(uploadedImages) + 1
         /\ LET added == uploadedImages'[Len(uploadedImages')]
            IN  /\ added.id = imageId
                /\ added.isUploading
                /\ ~added.processed
                /\ added.description = Undefined

C9_Completed ==
  \A j \in 1..Len(uploads) :
    (/\ UploadJsonSettle(j)
     /\ uploads[j].response.ok
     /\ uploads[j].response.json # <<>>)
      => /\ Len(uploadedImages') = Len(uploadedImages)
         /\ \A k \in 1..Len(uploadedImages) :
              uploadedImages[k].id = uploads[j].id
                => /\ ~uploadedImages'[k].isUploading
                   /\ uploadedImages'[k].processed
                   /\ uploadedImages'[k].description \notin {Undefined, ""}

C9_StaysComplete ==
  Len(uploadedImages') = Len(uploadedImages)
    => \A k \in 1..Len(uploadedImages) :
         ~uploadedImages[k].isUploading => ~uploadedImages'[k].isUploading

\* C9: a file of an image type of at most 10 MiB, exactly 10 MiB included,
\* is accepted and its attachment starts as uploading with no description;
\* when its encoding and its description request have succeeded, the
\* attachment with the upload's id is complete; a complete attachment never
\* turns back to uploading; and every complete attachment has a non-empty
\* description.
C9_UploadCompletes ==
  [](C9_CompleteDescribed)
  /\ [][C9_Accepted /\ C9_Completed /\ C9_StaysComplete]_vars

\* The attachment of the file of exactly 10 MiB is complete.
C9_Witness ==
  \E k \in 1..Len(uploadedImages) :
    /\ ~uploadedImages[k].isUploading
    /\ uploadedImages[k].processed
    /\ uploadedImages[k].description \notin {Undefined, ""}
    /\ \E file \in Files :
         file.size = 10 * 1024 * 1024 /\ uploadedImages[k].url = DataURL(file)

\* The step ends the j-th upload in the catch block.
C10_Fails(j) ==
  \/ UploadReadFail(j)
  \/ UploadFetchReject(j)
  \/ /\ UploadJsonSettle(j)
     /\ ~uploads[j].response.ok \/ uploads[j].response.json = <<>>

IdSeq(images) == [k \in 1..Len(images) |-> images[k].id]

\* The entries with another id than imageId, in their order.
OtherIds(images, imageId) == SelectSeq(images, LAMBDA img : img.id # imageId)

\* The step is a continuation of the j-th upload.
C11_UploadStep(j) ==
  \/ UploadReadDone(j)
  \/ UploadFetchReject(j)
  \/ /\ uploads[j].pc = "fetch"
     /\ Len(uploads') = Len(uploads)
     /\ UploadFetchResolve(j, uploads'[j].response)
  \/ UploadJsonSettle(j)
  \/ UploadResetTimer(j)

C11_OwnIdOnly ==
  /\ \A j \in 1..Len(uploads) :
       C11_UploadStep(j)
         => /\ OtherIds(uploadedImages', uploads[j].id)
                 = OtherIds(uploadedImages, uploads[j].id)
            /\ ~UploadFetchReject(j) => IdSeq(uploadedImages') = IdSeq(uploadedImages)
  /\ \A imageId \in Ids :
       CrawlTick(imageId)
         => /\ OtherIds(uploadedImages', imageId) = OtherIds(uploadedImages, imageId)
            /\ IdSeq(uploadedImages') = IdSeq(uploadedImages)

C11_OwnDescription ==
  \A j \in 1..Len(uploads) :
    (/\ UploadJsonSettle(j)
     /\ uploads[j].response.ok
     /\ uploads[j].response.json # <<>>)
      => \A k \in 1..Len(uploadedImages') :
           uploadedImages'[k].id = uploads[j].id
             => uploadedImages'[k].description
                  = JSONStringify(uploads[j].response.json[1].description)

C11_SelectionOrder ==
  \A file \in Photos, imageId \in Ids :
    handleImageUpload(file, imageId)
      => /\ IdSeq(uploadedImages') = Append(IdSeq(uploadedImages), imageId)
         /\ OtherIds(uploadedImages', imageId) = OtherIds(uploadedImages, imageId)

----------------------------------------------------------------------------
(* Properties: requests in flight *)

\* C12: at most one completion request is in flight in every state, and a
\* submit made while one is in flight changes nothing and issues no request.
C12_SingleRequest ==
  [](Len(chatRequests) <= 1)
  /\ [][(handleSubmit /\ chatRequests # <<>>) => UNCHANGED vars]_vars

\* A request is in flight in a state in which the model takes a submit.
C12_Witness ==
  /\ Len(chatRequests) = 1
  /\ chatRequests[1].pc = "json"
  /\ Len(messages) < MaxLog
  /\ resetTimers < MaxPendingResets

\* The step ends the i-th completion request with a success.
ChatSucceeds(i) ==
  /\ ChatJsonSettle(i)
  /\ chatRequests[i].response.ok
  /\ chatRequests[i].response.json # <<>>

\* The step ends the i-th completion request with a failure.
ChatFails(i) ==
  \/ ChatFetchReject(i)
  \/ /\ ChatJsonSettle(i)
     /\ ~chatRequests[i].response.ok \/ chatRequests[i].response.json = <<>>

\* C13: the progress is 100 when a completion request succeeds and 0 when it
\* fails, by a non-2xx answer or a rejected fetch; and once the progress is 0
\* with no request in flight it stays 0 until a submit issues the next one.
C13_ProgressReset ==
  [][/\ \A i \in 1..Len(chatRequests) :
          /\ ChatSucceeds(i) => aiResponseProgress' = 100
          /\ ChatFails(i) => aiResponseProgress' = 0
     /\ (chatRequests = <<>> /\ chatRequests' = <<>> /\ aiResponseProgress = 0)
          => aiResponseProgress' = 0]_vars

\* No request is in flight, none has succeeded, and the progress has left 0.
C13_Witness ==
  /\ chatRequests = <<>>
  /\ ~isLoading
  /\ resetTimers = 0
  /\ leakedProgressInterval
  /\ aiResponseProgress > 0

----------------------------------------------------------------------------
(* Properties: the log *)

\* C14: in every state every user message of the log that was submitted with
\* at least one image has, immediately before it, the analysis message that
\* lists the descriptions of its images.
C14_AnalysisPrecedes ==
  \A k \in 1..Len(messages) :
    (HasField(messages[k], "images") /\ Len(messages[k].images) >= 1)
      => /\ k > 1
         /\ IsAnalysis(messages[k - 1])
         /\ ListedInOrder(messages[k - 1].content, messages[k].images, 1, 1)

\* A turn with an image has failed and its request is over: its user message
\* is the only entry of the log.
C14_Witness ==
  /\ chatRequests = <<>>
  /\ ~isLoading
  /\ error # Null
  /\ Len(messages) = 1
  /\ Len(messages[1].images) >= 1

-----------------------------------------------------------------------------
(* Properties: the model preference *)

\* C15: on load the selected model is the stored value when that value is one
\* of the two identifiers and the first option otherwise; once the effects of
\* the load or of a model change have run, the stored value is the selected
\* model, and an effect left to run can always run.
C15_LoadedModel ==
  LoadEffect => selectedModel' = IF localStorage \in Models
                                 THEN localStorage
                                 ELSE "mistral"

C15_Stored == pendingEffects = <<>> => localStorage = selectedModel

C15_EffectsRun == pendingEffects # <<>> => ENABLED (LoadEffect \/ SaveEffect)

C15_ModelSurvivesReload ==
  /\ [](C15_Stored /\ C15_EffectsRun)
  /\ [][C15_LoadedModel]_vars
  /\ [][Reload => (pendingEffects' = MountEffects /\ localStorage' = selectedModel)]_vars

\* The page has been reloaded after "gemma" was selected, and the load effect
\* has selected it again.
C15_Witness ==
  /\ localStorage = "gemma"
  /\ selectedModel = "gemma"
  /\ pendingEffects = <<Effect("save", "mistral"), Effect("save", "gemma")>>

-----------------------------------------------------------------------------
(* Properties: rendering *)

\* C16: rendering is idempotent for the delimiter rewrites: passing a rendered
\* text through formatMathContent again gives the same text.
C16_Idempotent ==
  \A k \in 1..Len(messages) : formatMathContent(Rendered[k]) = Rendered[k]

\* A reply with a pair of escaped parentheses has been rendered with its
\* delimiters rewritten.
C16_Witness ==
  \E k \in 1..Len(messages) :
    /\ messages[k].role = "assistant"
    /\ messages[k].content = "\\(\\phi\\)"
    /\ Rendered[k] = "$\\phi$"

-----------------------------------------------------------------------------
(* Properties: the context *)

\* The descriptions of the attached images, in order.
C17_Descriptions(images) == [k \in 1..Len(images) |-> images[k].description]

\* The outbound sequence as a function of the log, the trimmed text, the
\* descriptions and the summary, and of nothing else.
C17_ContextOf(log, text, descriptions, summary) ==
  LET labelled == [k \in 1..Len(descriptions) |->
                     "[IMAGE " \o ToString(k) \o " ANALYSIS]:\n" \o Str(descriptions[k])]
      analysis == [role |-> "user",
                   content |-> "[CONTEXT: IMAGE ANALYSIS] The user has provided "
                               \o ToString(Len(descriptions))
                               \o " image(s). Here is the detailed analysis:\n\n"
                               \o JoinWith(labelled, "\n\n")
                               \o "\n\n(Refer to these as Image 1, Image 2, etc. Use this context to answer the user's questions.)"]
      turn == (IF descriptions = <<>> THEN <<>> ELSE <<analysis>>)
              \o <<[role |-> "user", content |-> text]>>
      all == <<BaseSystemMessage>> \o summary \o log \o turn
  IN  [k \in 1..Len(all) |-> [role |-> all[k].role, content |-> all[k].content]]

\* C17: context assembly is deterministic: the messages of every request a
\* submit issues are a function of the log, the trimmed text, the descriptions
\* of the attached images and the carried summary, so two submits that agree
\* on these four send the same sequence, whatever the progress, the error, the
\* selected model or the conversations cleared before.
C17_Deterministic ==
  [][(handleSubmit /\ C1_MaySubmit) =>
       /\ Len(chatRequests') = Len(chatRequests) + 1
       /\ chatRequests'[Len(chatRequests')].body.messages
            = C17_ContextOf(messages, Trim(input), C17_Descriptions(uploadedImages),
                            internalSummary)]_vars

\* A request is in flight that was submitted with an image and a summary,
\* with "gemma" selected, after an earlier request of the conversation failed
\* and left its interval timer running.
C17_Witness ==
  /\ Len(chatRequests) = 1
  /\ chatRequests[1].body.model = "gemma"
  /\ Len(chatRequests[1].currentImages) >= 1
  /\ Len(chatRequests[1].messages) = 1
  /\ internalSummary # <<>>
  /\ leakedProgressInterval

-----------------------------------------------------------------------------
(* Properties: the description request *)

\* The provider's texts that are not empty and are no JSON.
C18_PlainTexts == {text \in VisionContents : text # "" /\ ~JSONParse(text).ok}

\* The provider answering 2xx with this text as its first choice.
C18_Answer(j, text) ==
  ImageRoute(uploads[j].base64, DeployedEnv, [kind |-> "ok", choices |-> <<text>>])

C18_RouteSucceeds ==
  \A j \in 1..Len(uploads), text \in C18_PlainTexts :
    UploadFetchResolve(j, C18_Answer(j, text))
      => LET response == uploads'[j].response
         IN  /\ response.ok
             /\ response.status = 200
             /\ response.json # <<>>
             /\ HasField(response.json[1], "description")
             /\ response.json[1].description.description = text

C18_ClientCompletes ==
  \A j \in 1..Len(uploads), text \in C18_PlainTexts :
    (UploadJsonSettle(j) /\ uploads[j].response = C18_Answer(j, text))
      => /\ error' = error
         /\ IdSeq(uploadedImages') = IdSeq(uploadedImages)
         /\ \A k \in 1..Len(uploadedImages) :
              uploadedImages[k].id = uploads[j].id
                => /\ ~uploadedImages'[k].isUploading
                   /\ uploadedImages'[k].processed
                   /\ uploadedImages'[k].status = "Complete"
                   /\ Occurrences(uploadedImages'[k].description, Quote(text)) # {}

\* C18: when the vision provider answers with a non-empty text that is no
\* JSON, the route answers 200 with a description whose description field is
\* that text, and the client completes the attachment, removes nothing and
\* sets no error.
C18_PlainTextDescribes == [][C18_RouteSucceeds /\ C18_ClientCompletes]_vars

\* An attachment is complete with the provider's plain text as its
\* description.
C18_Witness ==
  \E k \in 1..Len(uploadedImages) :
    /\ ~uploadedImages[k].isUploading
    /\ uploadedImages[k].description =
         JSONStringify(DescriptionObject("a red car", <<>>, <<>>,
                                         "Image description from vision model"))

-----------------------------------------------------------------------------
(* Properties: an upload that outlives its conversation *)

\* No attachment has the id of the j-th upload.
C19_Orphan(j) == \A k \in 1..Len(uploadedImages) : uploadedImages[k].id # uploads[j].id

C19_ClearKeepsRequests ==
  clearChat => /\ uploads' = uploads
               /\ leakedCrawls' = leakedCrawls
               /\ uploadedImages' = <<>>
               /\ error' = Null

C19_StillResolves ==
  \A j \in 1..Len(uploads) :
    ENABLED (\/ UploadReadDone(j)
             \/ \E response \in PlatformResponses : UploadFetchResolve(j, response)
             \/ UploadJsonSettle(j)
             \/ UploadResetTimer(j))

C19_FailureSetsError ==
  \A j \in 1..Len(uploads) :
    (C10_Fails(j) /\ C19_Orphan(j))
      => /\ error' \notin {Null, ""}
         /\ uploadedImages' = uploadedImages
         /\ messages' = messages

C19_UpdatesFindNothing ==
  \A j \in 1..Len(uploads) :
    (C11_UploadStep(j) /\ ~C10_Fails(j) /\ C19_Orphan(j))
      => /\ uploadedImages' = uploadedImages
         /\ error' = error
         /\ messages' = messages

\* C19: clearChat cancels nothing: it empties the attachment set and leaves
\* every running upload as it is, and each of them can still take its next
\* step; a failure of an upload that finds no attachment with its id sets the
\* error all the same and changes no attachment, and its success and progress
\* updates change nothing, so an attachment set emptied by the clear stays
\* empty.
C19_NoCancellation ==
  /\ [](C19_StillResolves)
  /\ [][C19_ClearKeepsRequests /\ C19_FailureSetsError /\ C19_UpdatesFindNothing]_vars

\* The conversation has been cleared while a description request was in
\* flight, and the request has come back with a failure status that the
\* client is about to handle.
C19_Witness ==
  /\ Len(uploads) = 1
  /\ uploads[1].pc = "json"
  /\ ~uploads[1].response.ok
  /\ uploadedImages = <<>>
  /\ error = Null

-----------------------------------------------------------------------------
(* Properties: the two kinds of request *)

\* A description request is in flight: sent, and its body not yet read.
C20_DescriptionInFlight == \E j \in 1..Len(uploads) : uploads[j].pc \in {"fetch", "json"}

\* C20: no completion request is issued while a description request is in
\* flight and no upload is started while a completion request is in flight:
\* in no reachable state are a completion request and a description request
\* in flight together.
C20_NeverOverlap == ~(chatRequests # <<>> /\ C20_DescriptionInFlight)

\* A completion request was issued for a conversation cleared while a
\* description request was in flight, and both are waiting for their answers.
C20_Witness ==
  /\ Len(chatRequests) = 1
  /\ chatRequests[1].pc = "fetch"
  /\ Len(uploads) = 1
  /\ uploads[1].pc = "fetch"
  /\ uploadedImages = <<>>

-----------------------------------------------------------------------------
(* Properties: loading and error *)

\* C21: loading and error exclude each other: in every state with a
\* completion request in flight the error is none, and when a completion
\* request succeeds the error is none after it.
C21_LoadingWithoutError == isLoading => error = Null

C21_SuccessWithoutError ==
  \A i \in 1..Len(chatRequests) : ChatSucceeds(i) => error' = Null

C21_LoadingExcludesError ==
  /\ [](C21_LoadingWithoutError)
  /\ [][C21_SuccessWithoutError]_vars

\* A completion request is waiting for its answer while the error of a
\* failed upload is shown.
C21_Witness ==
  /\ isLoading
  /\ Len(chatRequests) = 1
  /\ chatRequests[1].pc = "fetch"
  /\ error \notin {Null, ""}

-----------------------------------------------------------------------------
(* Properties: the log is append-only *)

\* One message is added at the tail and the others are as they were.
C22_TailAppend ==
  /\ Len(messages') = Len(messages) + 1
  /\ SubSeq(messages', 1, Len(messages)) = messages

\* A successful turn with images: the analysis message goes in directly
\* before the last message, which is the user message, and the assistant
\* message at the tail; every message is as it was.
C22_AnalysisInsert ==
  LET n == Len(messages)
  IN  /\ n >= 1
      /\ \E i \in 1..Len(chatRequests) :
           ChatSucceeds(i) /\ Len(chatRequests[i].currentImages) >= 1
      /\ Len(messages') = n + 2
      /\ SubSeq(messages', 1, n - 1) = SubSeq(messages, 1, n - 1)
      /\ IsAnalysis(messages'[n])
      /\ messages'[n + 1] = messages[n]
      /\ messages[n].role = "user"
      /\ messages'[n + 2].role = "assistant"

\* C22: apart from clear, no step removes a message of the log, changes its
\* role, content or images, or reorders the messages; a step adds one message
\* at the tail, or, on a successful image turn, the analysis message directly
\* before the last user message together with the assistant message at the
\* tail.
C22_AppendOnly ==
  [][\/ clearChat
     \/ messages' = messages
     \/ C22_TailAppend
     \/ C22_AnalysisInsert]_vars

\* A log whose second turn had an image: the analysis message stands between
\* the message of the first turn and the user message of the second.
C22_Witness ==
  /\ Len(messages) = 4
  /\ messages[1].role = "user"
  /\ IsAnalysis(messages[2])
  /\ messages[3].role = "user" /\ Len(messages[3].images) >= 1
  /\ messages[4].role = "assistant"

-----------------------------------------------------------------------------
(* Properties: the images of a turn *)

\* The attachment has finished uploading and has its description.
C23_Described(img) ==
  /\ ~img.isUploading
  /\ img.processed
  /\ img.description \notin {Undefined, ""}

\* The analysis text lists no image without a description.
C23_NoneUndefined(text) == Occurrences(text, "ANALYSIS]:\nundefined") = {}

\* C23: every image a user message of the log carries, every image of a
\* request in flight, and every image listed by an analysis message of the
\* log or of an outbound context had finished uploading and had a description
\* when the turn was submitted.
C23_OnlyDescribedImages ==
  /\ \A k \in 1..Len(messages) :
       /\ HasField(messages[k], "images")
            => \A n \in 1..Len(messages[k].images) : C23_Described(messages[k].images[n])
       /\ C23_NoneUndefined(messages[k].content)
  /\ \A i \in 1..Len(chatRequests) :
       /\ \A n \in 1..Len(chatRequests[i].currentImages) :
            C23_Described(chatRequests[i].currentImages[n])
       /\ \A k \in 1..Len(chatRequests[i].body.messages) :
            C23_NoneUndefined(chatRequests[i].body.messages[k].content)

\* The second turn of a conversation was submitted with an image, and its
\* request is in flight with the analysis of that image in its context.
C23_Witness ==
  /\ Len(chatRequests) = 1
  /\ Len(chatRequests[1].currentImages) = 1
  /\ \E k \in 1..Len(chatRequests[1].body.messages) :
       IsAnalysis(chatRequests[1].body.messages[k])
  /\ Len(messages) = 2
  /\ messages[1].images = <<>>
  /\ Len(messages[2].images) = 1

-----------------------------------------------------------------------------
(* Properties: the progress of a request *)

\* A completion request has been issued and its response has not arrived.
C24_Waiting == \E i \in 1..Len(chatRequests) : chatRequests[i].pc = "fetch"

C24_Capped == C24_Waiting => aiResponseProgress <= 85

C24_NeverDecreases ==
  (C24_Waiting /\ \E i \in 1..Len(chatRequests') : chatRequests'[i].pc = "fetch")
    => aiResponseProgress' >= aiResponseProgress

C24_HundredOnSuccess ==
  (aiResponseProgress' = 100 /\ aiResponseProgress # 100)
    => \E i \in 1..Len(chatRequests) : ChatSucceeds(i)

\* C24: from an accepted submit to the arrival of its response the progress
\* never decreases and never exceeds 85, and it becomes 100 only by the
\* success of a completion request.
C24_ProgressMonotone ==
  /\ [](C24_Capped)
  /\ [][C24_NeverDecreases /\ C24_HundredOnSuccess]_vars

\* A request is waiting for its response with the progress back at 0.
C24_Witness ==
  /\ Len(chatRequests) = 1
  /\ chatRequests[1].pc = "fetch"
  /\ aiResponseProgress = 0

-----------------------------------------------------------------------------
(* Properties: the message list *)

\* C25: the message list hides exactly the synthesized analysis messages:
\* every message of the log that the user submitted or the assistant
\* answered is shown, whatever its text, and no analysis message is shown.
C25_HidesExactlyAnalysis ==
  \A k \in 1..Len(messages) : Visible(messages[k]) <=> ~IsAnalysis(messages[k])

\* The log holds a message the user submitted that the list does not show,
\* and its answer.
C25_Witness ==
  /\ Len(messages) = 2
  /\ messages[1].role = "user"
  /\ HasField(messages[1], "images")
  /\ messages[2].role = "assistant"
  /\ VisibleMessages = <<messages[2]>>

-----------------------------------------------------------------------------
(* Properties: after a failure *)

C26_AfterChatFailure ==
  \A i \in 1..Len(chatRequests) :
    ChatFails(i) => /\ ~isLoading'
                    /\ chatRequests' = <<>>
                    /\ ~isProcessingImage'

C26_AfterUploadFailure ==
  \A j \in 1..Len(uploads) :
    C10_Fails(j)
      => /\ ~isLoading'
         /\ \A k \in 1..Len(uploadedImages') : uploadedImages'[k].id # uploads[j].id
         /\ Len(uploads) = 1 => ~isProcessingImage'

C26_SubmitAccepted ==
  (handleSubmit /\ ~isLoading /\ ~isProcessingImage /\ Trim(input) # "")
    => Len(chatRequests') = Len(chatRequests) + 1

\* C26: every failure leaves the component ready: after a completion request
\* or an upload has failed, the loading flag is false and the failed upload
\* is no attachment that counts as uploading, and a submit with non-empty
\* text made in such a state issues a completion request.
C26_FailureLeavesReady ==
  [][C26_AfterChatFailure /\ C26_AfterUploadFailure /\ C26_SubmitAccepted]_vars

\* An upload has failed and the loading flag is set: the completion request
\* submitted after the clear is still in flight.
C26_Witness ==
  /\ isLoading
  /\ Len(chatRequests) = 1
  /\ uploads = <<>>
  /\ uploadedImages = <<>>
  /\ error = "Failed to process image"

-----------------------------------------------------------------------------
(* Properties: attachment ids *)

C27_UniqueIds ==
  \A k \in 1..Len(uploadedImages), n \in 1..Len(uploadedImages) :
    uploadedImages[k].id = uploadedImages[n].id => k = n

\* A continuation of an upload that keeps the length of the set changes at
\* most one entry.
C27_OneAttachmentChanged ==
  \A j \in 1..Len(uploads) :
    (C11_UploadStep(j) /\ Len(uploadedImages') = Len(uploadedImages))
      => Cardinality({k \in 1..Len(uploadedImages) :
                        uploadedImages'[k] # uploadedImages[k]}) <= 1

\* C27: attachment ids are unique within the session: in no reachable state
\* do two attachments of the set have the same id, and an update addressed to
\* one id changes no second attachment.
C27_IdsUnique == [](C27_UniqueIds) /\ [][C27_OneAttachmentChanged]_vars

\* Two files were selected and drew the same id; the completion of the first
\* upload has marked both attachments complete with its description.
C27_Witness ==
  /\ Len(uploadedImages) = 2
  /\ uploadedImages[1].id = uploadedImages[2].id
  /\ uploadedImages[1].description = uploadedImages[2].description
  /\ uploadedImages[1].description # Undefined
  /\ \E j \in 1..Len(uploads) : uploads[j].pc \in {"read", "fetch", "json"}

-----------------------------------------------------------------------------
(* Properties: clear and the request in flight *)

C28_ClearOnlyWhenIdle == clearChat => (chatRequests = <<>> /\ ~isLoading)

C28_AppliedToItsTurn ==
  \A i \in 1..Len(chatRequests) :
    ChatSucceeds(i)
      => /\ messages # <<>>
         /\ messages[Len(messages)] = UserTurn(chatRequests[i])
         /\ SubSeq(messages, 1, Len(messages) - 1) = chatRequests[i].messages

\* C28: clear is not taken while a completion request is in flight, so when
\* the response of a request is applied the log is the log of its submit
\* followed by the user message of its turn, which is the last entry.
C28_NoClearInFlight == [][C28_ClearOnlyWhenIdle /\ C28_AppliedToItsTurn]_vars

\* The successful response of the second turn has arrived and is about to be
\* applied to the log, whose last entry is the user message of that turn.
C28_Witness ==
  /\ Len(chatRequests) = 1
  /\ chatRequests[1].pc = "json"
  /\ chatRequests[1].response.ok
  /\ chatRequests[1].response.json # <<>>
  /\ Len(messages) = 2
  /\ messages[2] = UserTurn(chatRequests[1])

-----------------------------------------------------------------------------
(* Properties: a request that does not resolve *)

\* The step is the arrival of the response of the i-th request, or the
\* failure of its fetch.
C29_Resolves(i) ==
  \/ ChatFetchReject(i)
  \/ /\ chatRequests[i].pc = "fetch"
     /\ Len(chatRequests') = Len(chatRequests)
     /\ ChatFetchResolve(i, chatRequests'[i].response)

C29_AwaitingResponse ==
  C24_Waiting
    => /\ isLoading
       /\ Len(chatRequests) = 1
       /\ messages # <<>>
       /\ messages[Len(messages)] = UserTurn(chatRequests[1])
       /\ aiResponseProgress <= 85

C29_StaysUntilResolved ==
  (C24_Waiting /\ ~(\E i \in 1..Len(chatRequests) : C29_Resolves(i)))
    => /\ chatRequests' = chatRequests
       /\ isLoading'
       /\ messages' = messages

C29_SubmitIgnored == (handleSubmit /\ C24_Waiting) => UNCHANGED vars

\* C29: as long as a completion request has not resolved, the component is
\* awaiting its response: the loading flag is true, the last entry of the log
\* is the user message of the turn, the progress is at most 85, every submit
\* changes nothing, and no step other than the resolution of the request
\* ends the wait or changes the log.
C29_HungRequest ==
  /\ [](C29_AwaitingResponse)
  /\ [][C29_StaysUntilResolved /\ C29_SubmitIgnored]_vars

\* A request is still waiting when its interval has brought the progress to
\* the cap, while the interval of an earlier, failed request is running too.
C29_Witness ==
  /\ Len(chatRequests) = 1
  /\ chatRequests[1].pc = "fetch"
  /\ leakedProgressInterval
  /\ aiResponseProgress = 85

----------------------------------------------------------------------------
(* C30 *)

\* The vision calls made for an upload under an id, the completion calls
\* made for a user turn.
C30_Requests == {<<call.route, call.request>> : call \in providerCalls}

\* C30: nothing is retried: an accepted image upload causes at most one call
\* to the vision provider, an accepted submit at most one call to the
\* completion provider, and no call follows a failed call of the same request.
C30_NothingRetried ==
  \A r \in C30_Requests :
    LET calls == CallsOf(r[1], r[2])
    IN  /\ Len(calls) <= 1
        /\ \A k \in 1..Len(calls) : ~calls[k].ok => k = Len(calls)

====
